---- MODULE Spec2Model ----
(***************************************************************************)
(* Finance-tracking Telegram bot (aiogram v3 + MySQL): the per-user FSM    *)
(* session, the three entry pipelines (command, dialog, voice), the voice  *)
(* confirmation step and the ledger tables of src/db.py.                   *)
(*                                                                         *)
(* Texts.  A message text is a sequence of tokens.  A token is a single    *)
(* character ("0".."9", ".", ",", "-", "/", " ") or a whole word, which    *)
(* stands for a maximal run of letters and is never split.  The Cyrillic   *)
(* literals of the source are written in Latin transliteration:            *)
(*   Да = Da, Нет = Net, Отмена = Otmena, Пользовательская =               *)
(*   Polzovatelskaya, Прочее = Prochee, Еда = Eda, Зарплата = Zarplata,    *)
(*   Подарки = Podarki, День = Den, ... ; the emoji that start the menu    *)
(*   button labels are the tokens "[-]", "[+]", "[$]", "[#]", "[x]", "[?]".*)
(*                                                                         *)
(* Numbers.  A Python float is [k, m]: k = "num" with m the value in       *)
(* thousandths, or k = "nan".  Input texts carry at most MilliDigits       *)
(* fractional digits, so thousandths are exact.  A DECIMAL(10,2) column    *)
(* value is an integer number of hundredths.  JSON values of the language  *)
(* model's answer are [t, s, f]: t = "null", "str" (text s) or "num"       *)
(* (float f).                                                              *)
(***************************************************************************)
EXTENDS Integers, Sequences, FiniteSets, TLC

VARIABLES
    fsm_state,      \* MemoryStorage: user -> FSM state name ("None" = no state)
    fsm_data,       \* MemoryStorage: user -> the data dict of the FSM context
    users,          \* table users: rows [id, telegram_id]
    transactions,   \* table transactions: rows [id, user_id, type, amount, ...]
    users_auto,     \* AUTO_INCREMENT counter of users.id
    tx_auto,        \* AUTO_INCREMENT counter of transactions.id
    now,            \* the database clock behind CURRENT_TIMESTAMP
    reply,          \* the last message the bot sent (or the escaped exception)
    observed,       \* whether reply records the messages (no handler reads it)
    probe,          \* the texts of a two-path comparison (no handler reads it)
    handle_update_tasks  \* Dispatcher: the update tasks that await a store call

vars == <<fsm_state, fsm_data, users, transactions, users_auto, tx_auto, now, reply,
          observed, probe, handle_update_tasks>>

-----------------------------------------------------------------------------
(* Bounds *)

MaxInserts == 1
MaxLedgerInserts == 2
MaxNow == 1

-----------------------------------------------------------------------------
(* Python values *)

None == <<>>
Some(v) == <<v>>
IsNone(o) == o = <<>>
Get(o) == o[1]

Num(m) == [k |-> "num", m |-> m]
NaN == [k |-> "nan", m |-> 0]

\* Python "f <= 0" on a float: every comparison with nan is False
LeZero(f) == f.k = "num" /\ f.m <= 0

MilliDigits == 3

Digits == {"0", "1", "2", "3", "4", "5", "6", "7", "8", "9"}

DigitVal(c) ==
    CASE c = "0" -> 0 [] c = "1" -> 1 [] c = "2" -> 2 [] c = "3" -> 3
      [] c = "4" -> 4 [] c = "5" -> 5 [] c = "6" -> 6 [] c = "7" -> 7
      [] c = "8" -> 8 [] c = "9" -> 9

RECURSIVE Pow10(_)
Pow10(n) == IF n = 0 THEN 1 ELSE 10 * Pow10(n - 1)

RECURSIVE DigitsVal(_)
DigitsVal(s) ==
    IF s = <<>> THEN 0
    ELSE 10 * DigitsVal(SubSeq(s, 1, Len(s) - 1)) + DigitVal(s[Len(s)])

-----------------------------------------------------------------------------
(* str methods *)

RECURSIVE lstrip(_)
lstrip(s) == IF s # <<>> /\ Head(s) = " " THEN lstrip(Tail(s)) ELSE s

RECURSIVE rstrip(_)
rstrip(s) ==
    IF s # <<>> /\ s[Len(s)] = " " THEN rstrip(SubSeq(s, 1, Len(s) - 1)) ELSE s

strip(s) == rstrip(lstrip(s))

\* str.lower on one token: the words of the model that have upper-case letters
lower_token(c) ==
    CASE c = "Da" -> "da"
      [] c = "DA" -> "da"
      [] c = "Net" -> "net"
      [] c = "Otmena" -> "otmena"
      [] c = "Polzovatelskaya" -> "polzovatelskaya"
      [] c = "Eda" -> "eda"
      [] c = "Zarplata" -> "zarplata"
      [] c = "Podarki" -> "podarki"
      [] c = "Prochee" -> "prochee"
      [] c = "Den" -> "den"
      [] c = "Nedelya" -> "nedelya"
      [] c = "Mesyac" -> "mesyac"
      [] c = "God" -> "god"
      [] c = "NaN" -> "nan"
      [] c = "Income" -> "income"
      [] c = "Dohod" -> "dohod"
      [] OTHER -> c

lower(s) == [i \in 1..Len(s) |-> lower_token(s[i])]

\* a text left as it is, the comma still in it
replace_comma_none(s) == s

\* str.replace(",", ".")
replace_comma(s) == [i \in 1..Len(s) |-> IF s[i] = "," THEN "." ELSE s[i]]

\* str.split(): the maximal runs of non-space tokens
RECURSIVE split(_)
split(s) ==
    LET t == lstrip(s)
        n == IF \E i \in 1..Len(t) : t[i] = " "
             THEN (CHOOSE i \in 1..Len(t) :
                      t[i] = " " /\ \A j \in 1..(i - 1) : t[j] # " ") - 1
             ELSE Len(t)
    IN  IF t = <<>> THEN <<>>
        ELSE <<SubSeq(t, 1, n)>> \o split(SubSeq(t, n + 1, Len(t)))

\* " ".join(parts)
RECURSIVE join(_)
join(parts) ==
    IF parts = <<>> THEN <<>>
    ELSE IF Len(parts) = 1 THEN parts[1]
    ELSE parts[1] \o <<" ">> \o join(Tail(parts))

\* float(text): None stands for ValueError.  Accepted here: surrounding
\* spaces, an optional sign, digits with at most one ".", and "nan".
float(text) ==
    LET s == strip(text)
        neg == s # <<>> /\ Head(s) = "-"
        b == IF neg THEN Tail(s) ELSE s
        dots == {i \in 1..Len(b) : b[i] = "."}
        p == IF dots = {} THEN Len(b) + 1 ELSE CHOOSE i \in dots : TRUE
        ip == SubSeq(b, 1, p - 1)
        fp == SubSeq(b, p + 1, Len(b))
        mag == DigitsVal(ip) * Pow10(MilliDigits)
               + DigitsVal(fp) * Pow10(MilliDigits - Len(fp))
    IN  IF lower(b) = <<"nan">> THEN Some(NaN)
        ELSE IF \/ b = <<>>
                \/ Cardinality(dots) > 1
                \/ \E i \in 1..Len(b) : b[i] \notin Digits \cup {"."}
                \/ Len(ip) + Len(fp) = 0
                \/ Len(fp) > MilliDigits
             THEN None
        ELSE Some(Num(IF neg THEN 0 - mag ELSE mag))

-----------------------------------------------------------------------------
(* Keyboards, categories, states *)

BTN_EXPENSE == <<"[-]", " ", "Raskhod">>
BTN_INCOME == <<"[+]", " ", "Dohod">>
BTN_BALANCE == <<"[$]", " ", "Balans">>
BTN_STATS == <<"[#]", " ", "Statistika">>
BTN_DELETE_LAST == <<"[x]", " ", "Udalit", " ", "poslednyuyu">>
BTN_HELP == <<"[?]", " ", "Pomoshch">>
PERIOD_BUTTONS == {<<"Den">>, <<"Nedelya">>, <<"Mesyac">>, <<"God">>}

EXPENSE_CATEGORIES ==
    << <<"Eda">>, <<"Transport">>, <<"Zhilyo">>, <<"Kommunalnye">>, <<"Svyaz">>,
       <<"Zdorovye">>, <<"Odezhda">>, <<"Razvlecheniya">>, <<"Podarki">>,
       <<"Prochee">> >>

INCOME_CATEGORIES ==
    << <<"Zarplata">>, <<"Frilans">>, <<"Podarki">>, <<"Prodazhi">>,
       <<"Procenty">>, <<"Keshbek">>, <<"Investicii">>, <<"Premiya">>,
       <<"Socvyplaty">>, <<"Prochee">> >>

\* Python "x in list"
InList(x, list) == \E i \in 1..Len(list) : list[i] = x

Categories(kind) == IF kind = "expense" THEN EXPENSE_CATEGORIES ELSE INCOME_CATEGORIES

CUSTOM == <<"Polzovatelskaya">>
CANCEL == <<"Otmena">>
PROCHEE == <<"Prochee">>

\* FSM states: <<group, state>> of ExpenseStates / IncomeStates /
\* VoiceConfirmStates; ST_NONE is the unset state (no dialog in progress)
ST_NONE == <<"None">>
ST_VOICE == <<"VoiceConfirmStates", "awaiting_confirmation">>
StateOf(kind, step) ==
    <<IF kind = "expense" THEN "ExpenseStates" ELSE "IncomeStates", step>>
Kinds == {"expense", "income"}

\* the FSM data dict: the keys the handlers write, each absent (None) or set
EmptyData == [amount |-> None, category |-> None, voice_tx |-> None]

-----------------------------------------------------------------------------
(* JSON values produced by the language model *)

JNull == [t |-> "null", s |-> <<>>, f |-> Num(0)]
JStr(s) == [t |-> "str", s |-> s, f |-> Num(0)]
JNum(f) == [t |-> "num", s |-> <<>>, f |-> f]

\* str(x or "") for x null or a string
str_or_empty(j) == IF j.t = "str" THEN j.s ELSE <<>>

\* float(x): None stands for the exception (TypeError for null, ValueError)
float_json(j) ==
    CASE j.t = "num" -> Some(j.f)
      [] j.t = "str" -> float(j.s)
      [] OTHER -> None

-----------------------------------------------------------------------------
(* Validation *)

ERR_FORMAT == "Neverny format"
ERR_NOT_NUMBER == "Summa dolzhna byt chislom"
ERR_NOT_POSITIVE == "Summa dolzhna byt polozhitelnoy"
ERR_TYPE == "Tip operacii dolzhen byt expense ili income"

\* a parse of the arguments that leaves a decimal comma as it is
_parse_add_args_no_comma(args) ==
    LET parts == split(strip(IF IsNone(args) THEN <<>> ELSE Get(args)))
        bad(e) == [err |-> Some(e), amount |-> Num(0), category |-> <<>>,
                   description |-> None]
    IN  IF IsNone(args) \/ Get(args) = <<>> THEN bad(ERR_FORMAT)
        ELSE IF Len(parts) < 2 THEN bad(ERR_FORMAT)
        ELSE LET amount == float(parts[1])
             IN  IF IsNone(amount) THEN bad(ERR_NOT_NUMBER)
                 ELSE IF LeZero(Get(amount)) THEN bad(ERR_NOT_POSITIVE)
                 ELSE [err |-> None,
                       amount |-> Get(amount),
                       category |-> parts[2],
                       description |->
                           IF Len(parts) > 2
                           THEN Some(join(SubSeq(parts, 3, Len(parts))))
                           ELSE None]

\* _parse_add_args: [err, amount, category, description]
_parse_add_args(args) ==
    LET parts == IF IsNone(args) THEN <<>> ELSE split(strip(Get(args)))
        bad(e) == [err |-> Some(e), amount |-> Num(0), category |-> <<>>,
                   description |-> None]
    IN  IF IsNone(args) \/ Get(args) = <<>> THEN bad(ERR_FORMAT)
        ELSE IF Len(parts) < 2 THEN bad(ERR_FORMAT)
        ELSE LET amount == float(replace_comma(parts[1]))
             IN  IF IsNone(amount) THEN bad(ERR_NOT_NUMBER)
                 ELSE IF LeZero(Get(amount)) THEN bad(ERR_NOT_POSITIVE)
                 ELSE [err |-> None,
                       amount |-> Get(amount),
                       category |-> parts[2],
                       description |->
                           IF Len(parts) > 2
                           THEN Some(join(SubSeq(parts, 3, Len(parts))))
                           ELSE None]

income_syn == {<<"dohod">>, <<"income">>, <<"pribyl">>, <<"zachislenie">>,
               <<"zarplata">>, <<"postuplenie">>}
expense_syn == {<<"raskhod">>, <<"expense">>, <<"trata">>, <<"pokupka">>,
                <<"spisanie">>, <<"oplata">>}

\* a resolution that asks the category before the label
resolve_type_category_first(data) ==
    LET tx_type_raw == lower(strip(str_or_empty(data.type)))
        category_peek == strip(str_or_empty(data.category))
    IN  IF InList(category_peek, INCOME_CATEGORIES) THEN "income"
        ELSE IF InList(category_peek, EXPENSE_CATEGORIES) THEN "expense"
        ELSE IF tx_type_raw \in {<<"expense">>, <<"income">>} THEN tx_type_raw[1]
        ELSE IF tx_type_raw \in income_syn THEN "income"
        ELSE IF tx_type_raw \in expense_syn THEN "expense"
        ELSE ""

\* the kind _validate_voice_json resolves, "" when it resolves none
resolve_type(data) ==
    LET tx_type_raw == lower(strip(str_or_empty(data.type)))
        by_label == IF tx_type_raw \in {<<"expense">>, <<"income">>}
                    THEN tx_type_raw[1]
                    ELSE IF tx_type_raw \in income_syn THEN "income"
                    ELSE IF tx_type_raw \in expense_syn THEN "expense"
                    ELSE ""
        category_peek == strip(str_or_empty(data.category))
    IN  IF by_label = "" /\ category_peek # <<>>
        THEN IF InList(category_peek, INCOME_CATEGORIES) THEN "income"
             ELSE IF InList(category_peek, EXPENSE_CATEGORIES) THEN "expense"
             ELSE ""
        ELSE by_label

\* a validation without the fallback: the category as it came
category_as_given(data, tx_type) == JStr(str_or_empty(data.category))

\* the category _validate_voice_json leaves in the dict: the value as it came
\* when its stripped text is in the list of the kind, the fallback otherwise
category_or_fallback(data, tx_type) ==
    IF ~InList(strip(str_or_empty(data.category)), Categories(tx_type))
    THEN JStr(PROCHEE)
    ELSE data.category

\* _validate_voice_json: [err, data]; data is the dict as the call leaves it
_validate_voice_json(data) ==
    LET tx_type == resolve_type(data)
        amount == float_json(data.amount)
    IN  IF tx_type = "" THEN [err |-> Some(ERR_TYPE), data |-> data]
        ELSE LET d1 == [data EXCEPT !.type = JStr(<<tx_type>>)]
             IN  IF IsNone(amount) THEN [err |-> Some(ERR_NOT_NUMBER), data |-> d1]
                 ELSE IF LeZero(Get(amount))
                      THEN [err |-> Some(ERR_NOT_POSITIVE), data |-> d1]
                 ELSE [err |-> None,
                       data |-> [d1 EXCEPT
                                   !.category = category_or_fallback(data, tx_type)]]

-----------------------------------------------------------------------------
(* src/db.py: the tables and the Database methods *)

\* amount DECIMAL(10,2): the float is written as a decimal literal and the
\* column rounds it to hundredths, half away from zero (0.004 -> 0.00)
ToDecimal(f) ==
    LET unit == Pow10(MilliDigits - 2) IN (f.m + unit \div 2) \div unit

UserRow(tid) == CHOOSE r \in users : r.telegram_id = tid

\* Database.ensure_user: [id, users, users_auto]
ensure_user(telegram_id) ==
    IF \E r \in users : r.telegram_id = telegram_id
    THEN [id |-> UserRow(telegram_id).id, users |-> users, users_auto |-> users_auto]
    ELSE [id |-> users_auto,
          users |-> users \cup {[id |-> users_auto, telegram_id |-> telegram_id]},
          users_auto |-> users_auto + 1]

\* the exception Database.add_transaction ends with, "" when it inserts:
\* its own two checks, then the driver, which refuses to write nan
add_transaction_error(tx_type, amount) ==
    IF tx_type \notin Kinds THEN "ValueError"
    ELSE IF LeZero(amount) THEN "ValueError"
    ELSE IF amount.k # "num" THEN "ProgrammingError"
    ELSE ""

\* the row Database.add_transaction inserts; origin is a history field: the
\* key of the FSM data the handler read the fields from ("voice_tx"), or
\* "typed" for fields taken from the user's own messages
NewRow(user_id, tx_type, amount, category, description, origin) ==
    [id |-> tx_auto, user_id |-> user_id, type |-> tx_type,
     amount |-> ToDecimal(amount), category |-> category,
     description |-> description, created_at |-> now, origin |-> origin]

\* the rows of every user, whoever asks
UserTx_of_everyone(user_id) == transactions

UserTx(user_id) == {r \in transactions : r.user_id = user_id}

RECURSIVE SumAmount(_)
SumAmount(rows) ==
    IF rows = {} THEN 0
    ELSE LET r == CHOOSE r \in rows : TRUE IN r.amount + SumAmount(rows \ {r})

\* a balance that adds the expenses to the income
get_balance_unsigned(user_id) ==
    SumAmount({r \in UserTx(user_id) : r.type = "income"})
    + SumAmount({r \in UserTx(user_id) : r.type = "expense"})

\* Database.get_balance, in hundredths
get_balance(user_id) ==
    LET income_sum == SumAmount({r \in UserTx(user_id) : r.type = "income"})
        expense_sum == SumAmount({r \in UserTx(user_id) : r.type = "expense"})
    IN  income_sum - expense_sum

\* ORDER BY created_at DESC, id DESC
Later(a, b) == a.created_at > b.created_at
               \/ (a.created_at = b.created_at /\ a.id > b.id)

\* a selection in ascending order: the user's oldest row
last_transaction_oldest(user_id) ==
    CHOOSE r \in UserTx(user_id) : \A o \in UserTx(user_id) \ {r} : Later(o, r)

\* the row Database.delete_last_transaction selects (LIMIT 1)
last_transaction(user_id) ==
    CHOOSE r \in UserTx(user_id) : \A o \in UserTx(user_id) \ {r} : Later(r, o)

\* Database.delete_last_transaction: [ok, transactions]
delete_last_transaction(user_id) ==
    IF UserTx(user_id) = {} THEN [ok |-> FALSE, transactions |-> transactions]
    ELSE [ok |-> TRUE,
          transactions |-> transactions \ {last_transaction(user_id)}]

\* The clock counts the seconds since 0001-01-01 00:00:00 UTC, day 1 of
\* Python's date ordinals and a Monday; microseconds are left out, they are
\* zeroed by every branch of _period_start.  The clock of the model stays
\* within the year 1, which is not a leap year.  CURRENT_TIMESTAMP is taken
\* to be the same UTC clock.
DAY == 86400

\* day of the year on which each month begins, less one
MonthStarts == <<0, 31, 59, 90, 120, 151, 181, 212, 243, 273, 304, 334>>

\* a week that begins on Sunday
_period_start_sunday(period) ==
    LET start_of_day == now - (now % DAY)
        delta_days == ((now \div DAY) + 1) % 7
    IN  start_of_day - delta_days * DAY

\* Database._period_start; date.weekday() is (ordinal + 6) % 7, Monday = 0
_period_start(period) ==
    LET start_of_day == now - (now % DAY)
        ordinal == (now \div DAY) + 1
        delta_days == (ordinal + 6) % 7
        month == CHOOSE m \in 1..12 :
                    /\ MonthStarts[m] < ordinal
                    /\ \A n \in 1..12 : MonthStarts[n] < ordinal => n <= m
    IN  CASE period = "day" -> start_of_day
          [] period = "week" -> start_of_day - delta_days * DAY
          [] period = "month" -> MonthStarts[month] * DAY
          [] period = "year" -> 0

\* LIMIT n, and the slice [:n]
limit(s, n) == SubSeq(s, 1, IF Len(s) < n THEN Len(s) ELSE n)

\* LIMIT 50 of the by-category query
StatsLimit == 50

\* type ENUM('expense','income'): ORDER BY type sorts by the index
TypeIndex(tx_type) == IF tx_type = "expense" THEN 1 ELSE 2

\* the rows [type, category, total] of GROUP BY type, category over rows,
\* limited to the groups G, in every order ORDER BY type, total DESC allows:
\* groups of one type with equal totals come in an order the server chooses
RECURSIVE OrderByTypeTotal(_, _)
OrderByTypeTotal(G, rows) ==
    LET total(g) ==
            SumAmount({r \in rows : r.type = g.type /\ r.category = g.category})
        first == {g \in G : \A o \in G :
                    \/ TypeIndex(g.type) < TypeIndex(o.type)
                    \/ g.type = o.type /\ total(g) >= total(o)}
    IN  IF G = {} THEN {<<>>}
        ELSE UNION {{<<[type |-> g.type, category |-> g.category,
                        total |-> total(g)]>> \o s :
                        s \in OrderByTypeTotal(G \ {g}, rows)} : g \in first}

\* stats over the rows of all time, whatever the period
get_stats_all_time(user_id, period) ==
    LET start == _period_start(period)
        rows == UserTx(user_id)
        groups == {[type |-> r.type, category |-> r.category] : r \in rows}
        is_income(g) == g.type = "income"
        is_expense(g) == g.type = "expense"
        pair(s) == [i \in 1..Len(s) |-> <<s[i].category, s[i].total>>]
    IN  {[period |-> period,
          from |-> start,
          income_total |-> SumAmount({r \in rows : r.type = "income"}),
          expense_total |-> SumAmount({r \in rows : r.type = "expense"}),
          by_category |->
              [income |-> pair(SelectSeq(limit(s, StatsLimit), is_income)),
               expense |-> pair(SelectSeq(limit(s, StatsLimit), is_expense))]] :
            s \in OrderByTypeTotal(groups, rows)}

\* Database.get_stats: the results it may return, amounts in hundredths
get_stats(user_id, period) ==
    LET start == _period_start(period)
        rows == {r \in UserTx(user_id) : r.created_at >= start}
        groups == {[type |-> r.type, category |-> r.category] : r \in rows}
        is_income(g) == g.type = "income"
        is_expense(g) == g.type = "expense"
        pair(s) == [i \in 1..Len(s) |-> <<s[i].category, s[i].total>>]
    IN  {[period |-> period,
          from |-> start,
          income_total |-> SumAmount({r \in rows : r.type = "income"}),
          expense_total |-> SumAmount({r \in rows : r.type = "expense"}),
          by_category |->
              [income |-> pair(SelectSeq(limit(s, StatsLimit), is_income)),
               expense |-> pair(SelectSeq(limit(s, StatsLimit), is_expense))]] :
            s \in OrderByTypeTotal(groups, rows)}

-----------------------------------------------------------------------------
(* Inputs *)

\* Telegram users (message.from_user.id)
Users == {"u1", "u2"}

T_DA == <<"Da">>
T_NET == <<"Net">>
T_AMOUNT == <<"2", ".", "5">>
T_AMOUNT_COMMA == <<"2", ",", "5">>
T_SUBCENT == <<"0", ".", "0", "0", "4">>
T_NEGATIVE == <<"-", "5">>
T_NAN == <<"nan">>
T_WORD == <<"taksi">>
T_EMPTY == <<>>

\* the message texts each step of the model is tried with; T_EMPTY is a
\* message without text (a photo, a sticker)
AmountTexts ==
    {T_AMOUNT, T_AMOUNT_COMMA, T_SUBCENT, T_NAN, T_NEGATIVE, T_WORD, CANCEL, T_EMPTY}
CategoryTexts == {<<"Eda">>, <<"Zarplata">>, CUSTOM, CANCEL, T_WORD}
CustomTexts == {T_WORD, CANCEL, T_EMPTY}
AnswerTexts == {T_DA, T_NET, CANCEL, T_WORD}
DescriptionTexts == {T_WORD, CANCEL, T_EMPTY}
PeriodTexts == {<<"Den">>}
OtherTexts == {T_WORD}

\* CommandObject.args of the model
CmdArgs ==
    {None,
     Some(T_AMOUNT \o <<" ", "Eda">>),
     Some(T_SUBCENT \o <<" ", "Eda">>)}
StatsArgs == {None, Some(<<"week">>)}

\* what the two remote calls of handle_voice can end with: a failure of the
\* download, of the transcription or of the parse call, or a parsed value
\* (a JSON object, or something that is not an object)
NluTypes == {JStr(<<"expense">>), JStr(<<"Dohod">>), JNull}
NluAmounts == {JNum(Num(2500)), JNum(Num(-5000)), JNull}
NluCategories == {JStr(<<" ", "Eda">>), JStr(<<"Zarplata">>), JStr(T_WORD), JNull}
NoData == [type |-> JNull, amount |-> JNull, category |-> JNull, description |-> JNull]
NluOutcomes ==
    {[stage |-> st, data |-> NoData] :
        st \in {"download_failed", "transcribe_failed", "parse_failed", "not_dict"}}
    \cup
    {[stage |-> "parsed",
      data |-> [type |-> t, amount |-> a, category |-> c, description |-> JNull]] :
        t \in NluTypes, a \in NluAmounts, c \in NluCategories}
    \cup
    {[stage |-> "parsed",
      data |-> [type |-> JStr(<<"expense">>), amount |-> JNum(Num(2500)),
                category |-> JStr(<<"Eda">>), description |-> JStr(<<"obed">>)]],
     [stage |-> "parsed",
      data |-> [type |-> JStr(T_WORD), amount |-> JNum(Num(4)),
                category |-> JStr(<<"Eda">>), description |-> JNull]],
     [stage |-> "parsed",
      data |-> [type |-> JStr(<<"expense">>), amount |-> JStr(T_NAN),
                category |-> JStr(<<"Eda">>), description |-> JNull]]}

\* which store call fails: none, ensure_user, or the call after it
Faults == {"none", "ensure_user", "query"}

-----------------------------------------------------------------------------
(* Events and the router: the first registered handler whose filter matches *)

TextEvent(t) == [kind |-> "text", text |-> t, cmd |-> "", args |-> None]
CommandEvent(c, a) ==
    [kind |-> "command",
     text |-> <<"/", c>> \o (IF IsNone(a) THEN <<>> ELSE <<" ">> \o Get(a)),
     cmd |-> c, args |-> a]
VoiceEvent == [kind |-> "voice", text |-> <<>>, cmd |-> "", args |-> None]

\* the handler the router calls: the handlers of src/handlers.py are tried
\* in the order they are registered, and the first whose filter passes runs
handler_of(st, ev) ==
    LET is_cmd(c) == ev.kind = "command" /\ ev.cmd = c
        is_text(t) == ev.kind = "text" /\ ev.text = t
        in_state(group, step) == st = <<group, step>>
    IN  IF is_cmd("start") THEN "cmd_start"
        ELSE IF is_cmd("help") THEN "cmd_help"
        ELSE IF is_text(BTN_EXPENSE) THEN "btn_expense"
        ELSE IF is_text(BTN_INCOME) THEN "btn_income"
        ELSE IF is_text(BTN_BALANCE) THEN "btn_balance"
        ELSE IF is_text(BTN_STATS) THEN "btn_stats_hint"
        ELSE IF ev.kind = "text" /\ ev.text \in PERIOD_BUTTONS THEN "btn_stats_period"
        ELSE IF is_text(BTN_DELETE_LAST) THEN "btn_delete_last"
        ELSE IF is_text(BTN_HELP) THEN "btn_help"
        ELSE IF ev.kind = "voice" THEN "handle_voice"
        ELSE IF st = ST_VOICE THEN "voice_confirm"
        ELSE IF is_cmd("add_expense") THEN "cmd_add_expense"
        ELSE IF is_cmd("add_income") THEN "cmd_add_income"
        ELSE IF is_cmd("balance") THEN "cmd_balance"
        ELSE IF is_cmd("stats") THEN "cmd_stats"
        ELSE IF is_cmd("delete_last") THEN "cmd_delete_last"
        ELSE IF in_state("ExpenseStates", "amount") THEN "expense_enter_amount"
        ELSE IF in_state("ExpenseStates", "category") THEN "expense_choose_category"
        ELSE IF in_state("ExpenseStates", "maybe_custom_category")
             THEN "expense_custom_category"
        ELSE IF in_state("ExpenseStates", "need_description")
             THEN "expense_need_description"
        ELSE IF in_state("ExpenseStates", "description") THEN "expense_description"
        ELSE IF in_state("IncomeStates", "amount") THEN "income_enter_amount"
        ELSE IF in_state("IncomeStates", "category") THEN "income_choose_category"
        ELSE IF in_state("IncomeStates", "maybe_custom_category")
             THEN "income_custom_category"
        ELSE IF in_state("IncomeStates", "need_description")
             THEN "income_need_description"
        ELSE IF in_state("IncomeStates", "description") THEN "income_description"
        ELSE "unhandled"

-----------------------------------------------------------------------------
(* What a handler leaves behind *)

\* message.answer(...): msg names the message, the other fields are the
\* values it shows.  msg = "exception" is an exception that left the handler
\* (no message is sent); msg = "" is an update no handler took.
Msg(u, m) == [to |-> u, msg |-> m, detail |-> "", category |-> None, value |-> None]
Raised(u, e) == [Msg(u, "exception") EXCEPT !.detail = e]

\* reply is written and never read: a specification about the session and
\* the tables alone can leave the messages out (observed = FALSE).  A handler
\* taken as one step leaves no task behind.
Say(m) ==
    /\ reply' = IF observed THEN m ELSE reply
    /\ observed' = observed
    /\ probe' = probe
    /\ handle_update_tasks' = handle_update_tasks

\* a clear that resets the state and leaves the data
clear_state_only(u) ==
    /\ fsm_state' = [fsm_state EXCEPT ![u] = ST_NONE]
    /\ fsm_data' = fsm_data

\* state.clear()
clear(u) ==
    /\ fsm_state' = [fsm_state EXCEPT ![u] = ST_NONE]
    /\ fsm_data' = [fsm_data EXCEPT ![u] = EmptyData]

\* ensure_user followed by add_transaction, as every persisting handler calls
\* them: [exc, users, users_auto, transactions, tx_auto], exc = "" on success
Persist(u, tx_type, amount, category, description, origin, fault) ==
    LET eu == ensure_user(u)
        err == add_transaction_error(tx_type, amount)
        keep == [exc |-> "StoreError", users |-> users, users_auto |-> users_auto,
                 transactions |-> transactions, tx_auto |-> tx_auto]
        ensured == [keep EXCEPT !.users = eu.users, !.users_auto = eu.users_auto]
    IN  IF fault = "ensure_user" THEN keep
        ELSE IF err # "" THEN [ensured EXCEPT !.exc = err]
        ELSE IF fault = "query" THEN ensured
        ELSE [ensured EXCEPT
                !.exc = "",
                !.transactions = transactions \cup
                    {NewRow(eu.id, tx_type, amount, category, description, origin)},
                !.tx_auto = tx_auto + 1]

Store(r) ==
    /\ users' = r.users
    /\ users_auto' = r.users_auto
    /\ transactions' = r.transactions
    /\ tx_auto' = r.tx_auto

\* a handler that makes no call that writes
no_store == UNCHANGED <<users, transactions, users_auto, tx_auto>>

\* ensure_user alone, before a query
Ensure(u, fault) ==
    LET eu == ensure_user(u)
    IN  IF fault = "ensure_user" THEN UNCHANGED <<users, users_auto>>
        ELSE users' = eu.users /\ users_auto' = eu.users_auto

-----------------------------------------------------------------------------
(* Commands and menu buttons.  An action is one handler: its guard is the  *)
(* router's choice of that handler for the event.                          *)

On(h, u, ev) == handler_of(fsm_state[u], ev) = h

run_start(u, fault) ==
    /\ fault \in {"none", "ensure_user"}
    /\ Ensure(u, fault)
    /\ Say(IF fault = "none" THEN Msg(u, "start") ELSE Raised(u, "StoreError"))
    /\ UNCHANGED <<fsm_state, fsm_data, transactions, tx_auto, now>>

cmd_start(u, fault) ==
    On("cmd_start", u, CommandEvent("start", None)) /\ run_start(u, fault)

run_help(u) ==
    /\ Say(Msg(u, "help"))
    /\ UNCHANGED <<fsm_state, fsm_data, users, transactions, users_auto, tx_auto, now>>

cmd_help(u) == On("cmd_help", u, CommandEvent("help", None)) /\ run_help(u)

btn_help(u) == On("btn_help", u, TextEvent(BTN_HELP)) /\ run_help(u)

\* btn_expense / btn_income
run_enter(kind, u) ==
    /\ fsm_data' = [fsm_data EXCEPT ![u] = EmptyData]
    /\ fsm_state' = [fsm_state EXCEPT ![u] = StateOf(kind, "amount")]
    /\ Say([Msg(u, "enter amount") EXCEPT !.detail = kind])
    /\ UNCHANGED <<users, transactions, users_auto, tx_auto, now>>

btn_expense(u) == On("btn_expense", u, TextEvent(BTN_EXPENSE)) /\ run_enter("expense", u)

btn_income(u) == On("btn_income", u, TextEvent(BTN_INCOME)) /\ run_enter("income", u)

\* a balance request that takes the user's last transaction away
run_balance_deleting(u, fault) ==
    /\ Ensure(u, fault)
    /\ transactions' = delete_last_transaction(ensure_user(u).id).transactions
    /\ Say(IF fault = "none"
                THEN [Msg(u, "balance") EXCEPT
                        !.value = Some(get_balance(ensure_user(u).id))]
                ELSE Raised(u, "StoreError"))
    /\ UNCHANGED <<fsm_state, fsm_data, tx_auto, now>>

run_balance(u, fault) ==
    /\ Ensure(u, fault)
    /\ Say(IF fault = "none"
                THEN [Msg(u, "balance") EXCEPT
                        !.value = Some(get_balance(ensure_user(u).id))]
                ELSE Raised(u, "StoreError"))
    /\ UNCHANGED <<fsm_state, fsm_data, transactions, tx_auto, now>>

cmd_balance(u, fault) ==
    On("cmd_balance", u, CommandEvent("balance", None)) /\ run_balance(u, fault)

btn_balance(u, fault) ==
    On("btn_balance", u, TextEvent(BTN_BALANCE)) /\ run_balance(u, fault)

btn_stats_hint(u) ==
    /\ On("btn_stats_hint", u, TextEvent(BTN_STATS))
    /\ Say(Msg(u, "choose period"))
    /\ UNCHANGED <<fsm_state, fsm_data, users, transactions, users_auto, tx_auto, now>>

\* the categories of a kind cmd_stats shows: [:5]
TopShown == 5

PERIODS == {<<"day">>, <<"week">>, <<"month">>, <<"year">>}

run_stats(u, args, fault) ==
    LET period == lower(strip(IF IsNone(args) THEN <<>> ELSE Get(args)))
    IN  IF period \notin PERIODS
        THEN /\ Say(Msg(u, "stats usage"))
             /\ UNCHANGED <<fsm_state, fsm_data, users, transactions, users_auto,
                            tx_auto, now>>
        ELSE /\ Ensure(u, fault)
             /\ \E stats \in get_stats(ensure_user(u).id, period[1]) :
                    Say(IF fault = "none"
                        THEN [Msg(u, "stats") EXCEPT
                                !.detail = period[1],
                                !.value = Some(
                                    [income |-> stats.income_total,
                                     expense |-> stats.expense_total,
                                     inc_top |-> limit(stats.by_category.income,
                                                       TopShown),
                                     exp_top |-> limit(stats.by_category.expense,
                                                       TopShown)])]
                        ELSE Raised(u, "StoreError"))
             /\ UNCHANGED <<fsm_state, fsm_data, transactions, tx_auto, now>>

cmd_stats(u, args, fault) ==
    On("cmd_stats", u, CommandEvent("stats", args)) /\ run_stats(u, args, fault)

map_period(text) ==
    CASE text = <<"den">> -> Some(<<"day">>)
      [] text = <<"nedelya">> -> Some(<<"week">>)
      [] text = <<"mesyac">> -> Some(<<"month">>)
      [] text = <<"god">> -> Some(<<"year">>)
      [] OTHER -> None

btn_stats_period(u, t, fault) ==
    LET period == map_period(lower(strip(t)))
    IN  /\ On("btn_stats_period", u, TextEvent(t))
        /\ IF IsNone(period)
           THEN /\ Say(Msg(u, "unknown period"))
                /\ UNCHANGED <<fsm_state, fsm_data, users, transactions, users_auto,
                               tx_auto, now>>
           ELSE run_stats(u, period, fault)

run_delete_last(u, fault) ==
    LET r == delete_last_transaction(ensure_user(u).id)
    IN  /\ Ensure(u, fault)
        /\ transactions' = IF fault = "none" THEN r.transactions ELSE transactions
        /\ Say(IF fault # "none" THEN Raised(u, "StoreError")
                    ELSE IF r.ok THEN Msg(u, "deleted")
                    ELSE Msg(u, "nothing to delete"))
        /\ UNCHANGED <<fsm_state, fsm_data, tx_auto, now>>

cmd_delete_last(u, fault) ==
    On("cmd_delete_last", u, CommandEvent("delete_last", None))
    /\ run_delete_last(u, fault)

btn_delete_last(u, fault) ==
    On("btn_delete_last", u, TextEvent(BTN_DELETE_LAST)) /\ run_delete_last(u, fault)

\* an add command that ends the session it arrives in
run_add_clearing(kind, u, args, fault) ==
    LET p == _parse_add_args(args)
        r == Persist(u, kind, p.amount, p.category, p.description, "typed", fault)
    IN  IF ~IsNone(p.err)
        THEN /\ Say([Msg(u, "bad arguments") EXCEPT !.detail = Get(p.err)])
             /\ UNCHANGED <<fsm_state, fsm_data, users, transactions, users_auto,
                            tx_auto, now>>
        ELSE /\ Store(r)
             /\ Say(IF r.exc = ""
                         THEN [Msg(u, "added") EXCEPT !.detail = kind,
                                                      !.category = Some(p.category)]
                         ELSE Raised(u, r.exc))
             /\ clear(u)
             /\ UNCHANGED now

\* cmd_add_expense / cmd_add_income
run_add(kind, u, args, fault) ==
    LET p == _parse_add_args(args)
        r == Persist(u, kind, p.amount, p.category, p.description, "typed", fault)
    IN  IF ~IsNone(p.err)
        THEN /\ Say([Msg(u, "bad arguments") EXCEPT !.detail = Get(p.err)])
             /\ UNCHANGED <<fsm_state, fsm_data, users, transactions, users_auto,
                            tx_auto, now>>
        ELSE /\ Store(r)
             /\ Say(IF r.exc = ""
                         THEN [Msg(u, "added") EXCEPT !.detail = kind,
                                                      !.category = Some(p.category)]
                         ELSE Raised(u, r.exc))
             /\ UNCHANGED <<fsm_state, fsm_data, now>>

cmd_add_expense(u, args, fault) ==
    On("cmd_add_expense", u, CommandEvent("add_expense", args))
    /\ run_add("expense", u, args, fault)

cmd_add_income(u, args, fault) ==
    On("cmd_add_income", u, CommandEvent("add_income", args))
    /\ run_add("income", u, args, fault)

-----------------------------------------------------------------------------
(* Voice *)

\* JSON null / string -> Optional[str]
json_text(j) == IF j.t = "str" THEN Some(j.s) ELSE None

\* a failed stage that also resets the session
voice_fail_clearing(u, m, e) ==
    /\ Say([Msg(u, m) EXCEPT !.detail = e])
    /\ clear(u)
    /\ no_store

\* a failed stage of handle_voice: one message, then return
voice_fail(u, m, e) ==
    /\ Say([Msg(u, m) EXCEPT !.detail = e])
    /\ UNCHANGED <<fsm_state, fsm_data>>
    /\ no_store

\* a valid candidate written to the ledger at once, without the question
voice_accept_at_once(u, voice_tx) ==
    LET r == Persist(u, voice_tx.type, voice_tx.amount, voice_tx.category,
                     voice_tx.description, "voice_tx", "none")
    IN  /\ Store(r)
        /\ Say([Msg(u, "voice added") EXCEPT !.detail = voice_tx.type,
                                             !.category = Some(voice_tx.category)])
        /\ UNCHANGED <<fsm_state, fsm_data>>

\* the last step of handle_voice: the candidate goes into the session and the
\* user is asked to confirm it
voice_accept(u, voice_tx) ==
    /\ fsm_data' = [fsm_data EXCEPT ![u].voice_tx = Some(voice_tx)]
    /\ fsm_state' = [fsm_state EXCEPT ![u] = ST_VOICE]
    /\ Say([Msg(u, "confirm?") EXCEPT !.detail = voice_tx.type,
                                      !.category = Some(voice_tx.category)])
    /\ no_store

handle_voice(u, nlu) ==
    LET v == _validate_voice_json(nlu.data)
        data == v.data
        voice_tx == [type |-> data.type.s[1],
                     amount |-> Get(float_json(data.amount)),
                     category |-> data.category.s,
                     description |-> json_text(data.description)]
    IN  /\ On("handle_voice", u, VoiceEvent)
        /\ CASE nlu.stage = "download_failed" -> voice_fail(u, "download failed", "")
             [] nlu.stage = "transcribe_failed" ->
                    voice_fail(u, "transcription failed", "")
             [] nlu.stage = "parse_failed" -> voice_fail(u, "parse failed", "")
             [] nlu.stage = "not_dict" -> voice_fail(u, "invalid", ERR_FORMAT)
             [] nlu.stage = "parsed" /\ ~IsNone(v.err) ->
                    voice_fail(u, "invalid", Get(v.err))
             [] OTHER -> voice_accept(u, voice_tx)
        /\ UNCHANGED now

\* a read of the candidate under a key the session never holds
voice_tx_defaults_only(data) ==
    [type |-> "None", amount |-> Num(0), category |-> PROCHEE, description |-> None]

\* voice_tx = data.get("voice_tx", {}) and the defaults of its .get calls
voice_tx_or_default(data) ==
    IF IsNone(data.voice_tx)
    THEN [type |-> "None", amount |-> Num(0), category |-> PROCHEE,
          description |-> None]
    ELSE Get(data.voice_tx)

\* the branch voice_confirm takes on an answer
confirm_answer(answer) ==
    IF answer = <<"otmena">> THEN "cancel"
    ELSE IF answer \notin {<<"da">>, <<"net">>} THEN "other"
    ELSE IF answer = <<"net">> THEN "no"
    ELSE "yes"

\* a confirmation that gives the candidate up on an answer it does not know
voice_confirm_giving_up(u, ev, fault) ==
    LET answer == confirm_answer(lower(strip(ev.text)))
        voice_tx == voice_tx_or_default(fsm_data[u])
        r == Persist(u, voice_tx.type, voice_tx.amount, voice_tx.category,
                     voice_tx.description, "voice_tx", fault)
        same == UNCHANGED <<users, transactions, users_auto, tx_auto>>
    IN  /\ On("voice_confirm", u, ev)
        /\ IF answer = "cancel"
           THEN clear(u) /\ Say(Msg(u, "cancelled")) /\ same
           ELSE IF answer \in {"other", "no"}
           THEN clear(u) /\ Say(Msg(u, "not added")) /\ same
           ELSE /\ Store(r)
                /\ IF r.exc = ""
                   THEN /\ clear(u)
                        /\ Say([Msg(u, "voice added") EXCEPT
                                        !.detail = voice_tx.type,
                                        !.category = Some(voice_tx.category)])
                   ELSE /\ Say(Raised(u, r.exc))
                        /\ UNCHANGED <<fsm_state, fsm_data>>
        /\ UNCHANGED now

voice_confirm(u, ev, fault) ==
    LET answer == confirm_answer(lower(strip(ev.text)))
        voice_tx == voice_tx_or_default(fsm_data[u])
        r == Persist(u, voice_tx.type, voice_tx.amount, voice_tx.category,
                     voice_tx.description, "voice_tx", fault)
        same == UNCHANGED <<users, transactions, users_auto, tx_auto>>
    IN  /\ On("voice_confirm", u, ev)
        /\ IF answer = "cancel"
           THEN clear(u) /\ Say(Msg(u, "cancelled")) /\ same
           ELSE IF answer = "other"
           THEN /\ Say(Msg(u, "choose yes or no"))
                /\ UNCHANGED <<fsm_state, fsm_data>> /\ same
           ELSE IF answer = "no"
           THEN clear(u) /\ Say(Msg(u, "not added")) /\ same
           ELSE /\ Store(r)
                /\ IF r.exc = ""
                   THEN /\ clear(u)
                        /\ Say([Msg(u, "voice added") EXCEPT
                                        !.detail = voice_tx.type,
                                        !.category = Some(voice_tx.category)])
                   ELSE /\ Say(Raised(u, r.exc))
                        /\ UNCHANGED <<fsm_state, fsm_data>>
        /\ UNCHANGED now

-----------------------------------------------------------------------------
(* The dialog: ExpenseStates and IncomeStates run the same steps *)

\* a finalization that forgets the description
_finalize_no_description(kind, u, data, description, fault) ==
    LET amount == IF IsNone(data.amount) THEN Num(0) ELSE Get(data.amount)
        category == IF IsNone(data.category) THEN <<"None">> ELSE Get(data.category)
        r == Persist(u, kind, amount, category, None, "typed", fault)
    IN  /\ Store(r)
        /\ Say(IF r.exc = ""
                    THEN [Msg(u, "added") EXCEPT !.detail = kind,
                                                 !.category = Some(category)]
                    ELSE Raised(u, r.exc))

\* _finalize_expense / _finalize_income
_finalize(kind, u, data, description, fault) ==
    LET amount == IF IsNone(data.amount) THEN Num(0) ELSE Get(data.amount)
        category == IF IsNone(data.category) THEN <<"None">> ELSE Get(data.category)
        r == Persist(u, kind, amount, category, description, "typed", fault)
    IN  /\ Store(r)
        /\ Say(IF r.exc = ""
                    THEN [Msg(u, "added") EXCEPT !.detail = kind,
                                                 !.category = Some(category)]
                    ELSE Raised(u, r.exc))

\* expense_enter_amount / income_enter_amount
enter_amount(kind, u, t) ==
    LET text == replace_comma(strip(t))
        amount == float(text)
    IN  /\ IF lower(text) = <<"otmena">>
           THEN clear(u) /\ Say(Msg(u, "cancelled"))
           ELSE IF IsNone(amount) \/ LeZero(Get(amount))
           THEN /\ Say(Msg(u, "amount must be positive"))
                /\ UNCHANGED <<fsm_state, fsm_data>>
           ELSE /\ fsm_data' = [fsm_data EXCEPT ![u].amount = amount]
                /\ fsm_state' = [fsm_state EXCEPT ![u] = StateOf(kind, "category")]
                /\ Say([Msg(u, "choose category") EXCEPT !.detail = kind])
        /\ no_store /\ UNCHANGED now

\* a category step that takes the categories of both kinds
choose_category_any_kind(kind, u, t) ==
    LET category == strip(t)
    IN  /\ IF category = CANCEL
           THEN clear(u) /\ Say(Msg(u, "cancelled"))
           ELSE IF category = CUSTOM
           THEN /\ fsm_state' =
                      [fsm_state EXCEPT ![u] = StateOf(kind, "maybe_custom_category")]
                /\ Say(Msg(u, "enter category"))
                /\ UNCHANGED fsm_data
           ELSE IF ~InList(category, EXPENSE_CATEGORIES \o INCOME_CATEGORIES)
           THEN /\ Say(Msg(u, "choose from keyboard"))
                /\ UNCHANGED <<fsm_state, fsm_data>>
           ELSE /\ fsm_data' = [fsm_data EXCEPT ![u].category = Some(category)]
                /\ fsm_state' =
                      [fsm_state EXCEPT ![u] = StateOf(kind, "need_description")]
                /\ Say(Msg(u, "add description?"))
        /\ no_store /\ UNCHANGED now

\* expense_choose_category / income_choose_category
choose_category(kind, u, t) ==
    LET category == strip(t)
    IN  /\ IF category = CANCEL
           THEN clear(u) /\ Say(Msg(u, "cancelled"))
           ELSE IF category = CUSTOM
           THEN /\ fsm_state' =
                      [fsm_state EXCEPT ![u] = StateOf(kind, "maybe_custom_category")]
                /\ Say(Msg(u, "enter category"))
                /\ UNCHANGED fsm_data
           ELSE IF ~InList(category, Categories(kind))
           THEN /\ Say(Msg(u, "choose from keyboard"))
                /\ UNCHANGED <<fsm_state, fsm_data>>
           ELSE /\ fsm_data' = [fsm_data EXCEPT ![u].category = Some(category)]
                /\ fsm_state' =
                      [fsm_state EXCEPT ![u] = StateOf(kind, "need_description")]
                /\ Say(Msg(u, "add description?"))
        /\ no_store /\ UNCHANGED now

\* a custom category step that takes an empty text too
custom_category_unchecked(kind, u, t) ==
    /\ fsm_data' = [fsm_data EXCEPT ![u].category = Some(strip(t))]
    /\ fsm_state' = [fsm_state EXCEPT ![u] = StateOf(kind, "need_description")]
    /\ Say(Msg(u, "add description?"))
    /\ no_store /\ UNCHANGED now

\* expense_custom_category / income_custom_category
custom_category(kind, u, t) ==
    LET category == strip(t)
    IN  /\ IF category = <<>>
           THEN /\ Say(Msg(u, "category is empty"))
                /\ UNCHANGED <<fsm_state, fsm_data>>
           ELSE /\ fsm_data' = [fsm_data EXCEPT ![u].category = Some(category)]
                /\ fsm_state' =
                      [fsm_state EXCEPT ![u] = StateOf(kind, "need_description")]
                /\ Say(Msg(u, "add description?"))
        /\ no_store /\ UNCHANGED now

\* a description choice that finalizes on "yes" as it does on "no"
need_description_eager(kind, u, t, fault) ==
    LET answer == lower(strip(t))
    IN  /\ IF answer = <<"otmena">>
           THEN clear(u) /\ Say(Msg(u, "cancelled")) /\ no_store
           ELSE IF answer \in {<<"da">>, <<"net">>}
           THEN clear(u) /\ _finalize(kind, u, fsm_data[u], None, fault)
           ELSE /\ Say(Msg(u, "choose yes or no"))
                /\ UNCHANGED <<fsm_state, fsm_data>> /\ no_store
        /\ UNCHANGED now

\* expense_need_description / income_need_description
need_description(kind, u, t, fault) ==
    LET answer == lower(strip(t))
    IN  /\ IF answer = <<"otmena">>
           THEN clear(u) /\ Say(Msg(u, "cancelled")) /\ no_store
           ELSE IF answer = <<"da">>
           THEN /\ fsm_state' = [fsm_state EXCEPT ![u] = StateOf(kind, "description")]
                /\ Say(Msg(u, "enter description"))
                /\ UNCHANGED fsm_data /\ no_store
           ELSE IF answer = <<"net">>
           THEN clear(u) /\ _finalize(kind, u, fsm_data[u], None, fault)
           ELSE /\ Say(Msg(u, "choose yes or no"))
                /\ UNCHANGED <<fsm_state, fsm_data>> /\ no_store
        /\ UNCHANGED now

\* a description step that leaves the session where it is
description_staying(kind, u, t, fault) ==
    LET text == strip(t)
    IN  /\ UNCHANGED <<fsm_state, fsm_data>>
        /\ _finalize(kind, u, fsm_data[u], IF text = <<>> THEN None ELSE Some(text),
                     fault)
        /\ UNCHANGED now

\* expense_description / income_description
description(kind, u, t, fault) ==
    LET text == strip(t)
    IN  /\ clear(u)
        /\ _finalize(kind, u, fsm_data[u], IF text = <<>> THEN None ELSE Some(text),
                     fault)
        /\ UNCHANGED now

expense_enter_amount(u, t) ==
    On("expense_enter_amount", u, TextEvent(t)) /\ enter_amount("expense", u, t)

expense_choose_category(u, t) ==
    On("expense_choose_category", u, TextEvent(t)) /\ choose_category("expense", u, t)

expense_custom_category(u, t) ==
    On("expense_custom_category", u, TextEvent(t)) /\ custom_category("expense", u, t)

expense_need_description(u, t, fault) ==
    On("expense_need_description", u, TextEvent(t))
    /\ need_description("expense", u, t, fault)

expense_description(u, t, fault) ==
    On("expense_description", u, TextEvent(t)) /\ description("expense", u, t, fault)

income_enter_amount(u, t) ==
    On("income_enter_amount", u, TextEvent(t)) /\ enter_amount("income", u, t)

income_choose_category(u, t) ==
    On("income_choose_category", u, TextEvent(t)) /\ choose_category("income", u, t)

income_custom_category(u, t) ==
    On("income_custom_category", u, TextEvent(t)) /\ custom_category("income", u, t)

income_need_description(u, t, fault) ==
    On("income_need_description", u, TextEvent(t))
    /\ need_description("income", u, t, fault)

income_description(u, t, fault) ==
    On("income_description", u, TextEvent(t)) /\ description("income", u, t, fault)

\* an update no filter matches: nothing is called
unhandled(u, ev) ==
    /\ On("unhandled", u, ev)
    /\ Say(Msg(u, ""))
    /\ UNCHANGED <<fsm_state, fsm_data, users, transactions, users_auto, tx_auto, now>>

\* the router on a text message t of user u: the one handler it calls
deliver_text(u, t, fault) ==
    \/ t = BTN_EXPENSE /\ btn_expense(u)
    \/ t = BTN_INCOME /\ btn_income(u)
    \/ t = BTN_BALANCE /\ btn_balance(u, fault)
    \/ t = BTN_STATS /\ btn_stats_hint(u)
    \/ t = BTN_DELETE_LAST /\ btn_delete_last(u, fault)
    \/ t = BTN_HELP /\ btn_help(u)
    \/ btn_stats_period(u, t, fault)
    \/ voice_confirm(u, TextEvent(t), fault)
    \/ expense_enter_amount(u, t)
    \/ expense_choose_category(u, t)
    \/ expense_custom_category(u, t)
    \/ expense_need_description(u, t, fault)
    \/ expense_description(u, t, fault)
    \/ income_enter_amount(u, t)
    \/ income_choose_category(u, t)
    \/ income_custom_category(u, t)
    \/ income_need_description(u, t, fault)
    \/ income_description(u, t, fault)
    \/ unhandled(u, TextEvent(t))

\* time passes on the database clock
Tick ==
    /\ now < MaxNow
    /\ now' = now + 1
    /\ UNCHANGED <<fsm_state, fsm_data, users, transactions, users_auto, tx_auto, reply,
                   observed, probe, handle_update_tasks>>

-----------------------------------------------------------------------------
(* The system *)

NoProbe == [kind |-> "expense", amount |-> <<>>, category |-> <<>>]

Start(obs, pr) ==
    /\ fsm_state = [u \in Users |-> ST_NONE]
    /\ fsm_data = [u \in Users |-> EmptyData]
    /\ users = {}
    /\ transactions = {}
    /\ users_auto = 1
    /\ tx_auto = 1
    /\ now = 0
    /\ reply = Msg("", "")
    /\ observed = obs
    /\ probe = pr
    /\ handle_update_tasks = {}

Init == Start(FALSE, NoProbe)

Candidate(t, a, c, d) ==
    [stage |-> "parsed",
     data |-> [type |-> t, amount |-> a, category |-> c, description |-> d]]

NluMain ==
    {[stage |-> "download_failed", data |-> NoData],
     [stage |-> "parse_failed", data |-> NoData],
     Candidate(JStr(<<"expense">>), JNum(Num(2500)), JStr(<<"Eda">>), JNull),
     Candidate(JStr(<<"Dohod">>), JNum(Num(2500)), JStr(T_WORD), JStr(<<"obed">>)),
     Candidate(JNull, JNum(Num(-5000)), JNull, JNull)}

\* the inserts of a behaviour are bounded: AUTO_INCREMENT stays within n + 1
Inserts(n) == tx_auto' <= n + 1

\* every handler, on the events of one user
Next ==
    \E u \in {"u1"} :
        \/ cmd_help(u)
        \/ btn_help(u)
        \/ btn_expense(u)
        \/ btn_income(u)
        \/ btn_stats_hint(u)
        \/ \E nlu \in NluMain : handle_voice(u, nlu)
        \/ \E t \in AmountTexts : expense_enter_amount(u, t)
        \/ \E t \in AmountTexts : income_enter_amount(u, t)
        \/ \E t \in CategoryTexts : expense_choose_category(u, t)
        \/ \E t \in CategoryTexts : income_choose_category(u, t)
        \/ \E t \in CustomTexts : expense_custom_category(u, t)
        \/ \E t \in CustomTexts : income_custom_category(u, t)
        \/ \E t \in OtherTexts : unhandled(u, TextEvent(t))
        \/ \E fault \in Faults :
            \/ cmd_start(u, fault)
            \/ cmd_balance(u, fault)
            \/ btn_balance(u, fault)
            \/ cmd_delete_last(u, fault)
            \/ btn_delete_last(u, fault)
            \/ \E t \in PeriodTexts : btn_stats_period(u, t, fault)
            \/ \E t \in AnswerTexts :
                expense_need_description(u, t, fault) /\ Inserts(MaxInserts)
            \/ \E t \in AnswerTexts :
                income_need_description(u, t, fault) /\ Inserts(MaxInserts)
            \/ \E t \in DescriptionTexts :
                expense_description(u, t, fault) /\ Inserts(MaxInserts)
            \/ \E t \in DescriptionTexts :
                income_description(u, t, fault) /\ Inserts(MaxInserts)
            \/ \E t \in AnswerTexts :
                voice_confirm(u, TextEvent(t), fault) /\ Inserts(MaxInserts)
            \/ \E a \in StatsArgs : cmd_stats(u, a, fault)
            \/ \E a \in CmdArgs :
                \/ cmd_add_expense(u, a, fault) /\ Inserts(MaxInserts)
                \/ cmd_add_income(u, a, fault) /\ Inserts(MaxInserts)
            \/ voice_confirm(u, CommandEvent("add_expense", None), fault)

Spec == Init /\ [][Next]_vars

-----------------------------------------------------------------------------
(* The voice pipeline alone, with its messages, over every NLU outcome; the *)
(* user may be inside the expense dialog when the audio arrives             *)

InitVoice == Start(TRUE, NoProbe)

NextVoice ==
    \E u \in {"u1"} :
        \/ btn_expense(u)
        \/ expense_enter_amount(u, T_AMOUNT)
        \/ \E nlu \in NluOutcomes : handle_voice(u, nlu)
        \/ \E t \in AnswerTexts, fault \in Faults :
            voice_confirm(u, TextEvent(t), fault) /\ Inserts(MaxInserts)

SpecVoice == InitVoice /\ [][NextVoice]_vars

-----------------------------------------------------------------------------
(* The ledger of two users under the commands, with the clock running *)

LedgerArgs == {Some(T_AMOUNT \o <<" ", "Eda">>), Some(<<"1", " ", "Eda">>)}

InitLedger == Start(TRUE, NoProbe)

NextLedger ==
    \/ Tick
    \/ \E u \in Users :
        \/ \E a \in LedgerArgs :
            cmd_add_expense(u, a, "none") /\ Inserts(MaxLedgerInserts)
        \/ \E a \in LedgerArgs :
            cmd_add_income(u, a, "none") /\ Inserts(MaxLedgerInserts)
        \/ \E fault \in {"none", "query"} :
            \/ cmd_delete_last(u, fault)
            \/ cmd_balance(u, fault)

SpecLedger == InitLedger /\ [][NextLedger]_vars

-----------------------------------------------------------------------------
(* One amount text and one category text on both paths: u2 sends them with *)
(* the command, then u1 types them into the dialog (amount step, custom    *)
(* category step, no description)                                          *)

EquivAmounts ==
    {T_AMOUNT, T_AMOUNT_COMMA, T_SUBCENT, T_NEGATIVE, T_WORD, CANCEL,
     <<" ">> \o T_AMOUNT, <<"1", " ", "0">>, T_NAN}
EquivCategories ==
    {T_WORD, <<"Eda">>, CANCEL, T_DA, <<"Eda", " ", "doma">>, <<"Den">>,
     <<"/", "help">>}

InitEquiv ==
    \E k \in Kinds, a \in EquivAmounts, c \in EquivCategories :
        Start(TRUE, [kind |-> k, amount |-> a, category |-> c])

EquivArgs == Some(probe.amount \o <<" ">> \o probe.category)

NextEquiv ==
    \/ /\ reply.to = ""
       /\ \/ probe.kind = "expense" /\ cmd_add_expense("u2", EquivArgs, "none")
          \/ probe.kind = "income" /\ cmd_add_income("u2", EquivArgs, "none")
    \/ /\ reply.to = "u2"
       /\ \/ probe.kind = "expense" /\ btn_expense("u1")
          \/ probe.kind = "income" /\ btn_income("u1")
    \/ /\ reply.to = "u1" /\ reply.msg = "enter amount"
       /\ \/ expense_enter_amount("u1", probe.amount)
          \/ income_enter_amount("u1", probe.amount)
    \/ /\ reply.to = "u1" /\ reply.msg = "choose category"
       /\ \/ expense_choose_category("u1", CUSTOM)
          \/ income_choose_category("u1", CUSTOM)
    \/ /\ reply.to = "u1" /\ reply.msg = "enter category"
       /\ \/ expense_custom_category("u1", probe.category)
          \/ income_custom_category("u1", probe.category)
          \/ btn_stats_period("u1", probe.category, "none")
          \/ probe.category = CommandEvent("help", None).text /\ cmd_help("u1")
    \/ /\ reply.to = "u1" /\ reply.msg = "add description?"
       /\ \/ expense_need_description("u1", T_NET, "none")
          \/ income_need_description("u1", T_NET, "none")

SpecEquiv == InitEquiv /\ [][NextEquiv]_vars

-----------------------------------------------------------------------------
(* The confirmation gate, cancellation and the ledger's rows (Spec) *)

\* the rows of the ledger that belong to Telegram user u
RowsOf(u) ==
    {r \in transactions : \E w \in users : w.telegram_id = u /\ w.id = r.user_id}

\* C1: a transaction whose fields came from an audio event enters the ledger
\* only in a step in which its own user, whose session is in
\* AwaitingVoiceConfirmation and holds that candidate, answers "yes"
C1_VoiceRowOnlyAfterYes ==
    [][\A r \in transactions' \ transactions :
          r.origin = "voice_tx" =>
              \E u \in Users :
                  /\ \E w \in users' : w.telegram_id = u /\ w.id = r.user_id
                  /\ fsm_state[u] = ST_VOICE
                  /\ ~IsNone(fsm_data[u].voice_tx)
                  /\ LET c == Get(fsm_data[u].voice_tx)
                     IN  /\ r.type = c.type
                         /\ r.amount = ToDecimal(c.amount)
                         /\ r.category = c.category
                         /\ r.description = c.description
                  /\ \E t \in AnswerTexts, fault \in Faults :
                        /\ lower(strip(t)) = <<"da">>
                        /\ voice_confirm(u, TextEvent(t), fault)]_vars

\* a voice candidate has reached the ledger
C1_Witness == \E r \in transactions : r.origin = "voice_tx"

\* C2: in every state other than Idle a message equal to the cancel keyword
\* ends the session in Idle with an empty accumulator and appends nothing
C2_CancelFromEveryState ==
    [][\A u \in Users, fault \in Faults :
          (fsm_state[u] # ST_NONE /\ deliver_text(u, CANCEL, fault)) =>
              /\ fsm_state'[u] = ST_NONE
              /\ fsm_data'[u] = EmptyData
              /\ transactions' = transactions]_vars

\* C3: every transaction of the ledger has an amount strictly greater than
\* zero and a kind that is expense or income
C3_LedgerRowsValid ==
    \A r \in transactions : r.amount > 0 /\ r.type \in Kinds

-----------------------------------------------------------------------------
(* Balance and delete_last (SpecLedger) *)

RECURSIVE SignedSum(_)
SignedSum(rows) ==
    IF rows = {} THEN 0
    ELSE LET r == CHOOSE x \in rows : TRUE
         IN  (IF r.type = "income" THEN r.amount ELSE 0 - r.amount)
             + SignedSum(rows \ {r})

\* C4: after any sequence of appends and delete_last the balance shown to a
\* user is the sum of that user's income amounts in the ledger minus the sum
\* of that user's expense amounts, 0 when the user has no transaction
C4_BalanceIsIncomeMinusExpense ==
    reply.msg = "balance" => reply.value = Some(SignedSum(RowsOf(reply.to)))

\* a user holding an income and an expense is shown a balance other than 0
C4_Witness ==
    /\ reply.msg = "balance"
    /\ reply.value # Some(0)
    /\ \E a, b \in RowsOf(reply.to) : a.type = "income" /\ b.type = "expense"

\* C5: delete_last answers "deleted" exactly when the user had a transaction,
\* and then removes the one row of that user with the greatest
\* (created_at, id) and no other; otherwise it answers that there is nothing
\* to delete and leaves the ledger as it was
C5_DeleteLastRemovesNewest ==
    [][\A u \in Users :
          cmd_delete_last(u, "none") =>
              IF RowsOf(u) = {}
              THEN reply'.msg = "nothing to delete" /\ transactions' = transactions
              ELSE /\ reply'.msg = "deleted"
                   /\ \E r \in RowsOf(u) :
                        /\ transactions' = transactions \ {r}
                        /\ \A o \in RowsOf(u) :
                              \/ o.created_at < r.created_at
                              \/ o.created_at = r.created_at /\ o.id <= r.id]_vars

\* the second of a user's two rows was deleted, the first one is still there
C5_Witness ==
    /\ reply.msg = "deleted"
    /\ tx_auto = 3
    /\ \E r \in RowsOf(reply.to) : r.id = 1

\* delete_last on an emptied ledger
C5_WitnessNothing ==
    reply.msg = "nothing to delete" /\ tx_auto > 1 /\ transactions = {}

-----------------------------------------------------------------------------
(* The dialog (Spec) *)

Abs(n) == IF n < 0 THEN 0 - n ELSE n

\* cents is the number f at the ledger's precision of two decimals
SameAmount(cents, f) ==
    f.k = "num" /\ 2 * Abs(cents * Pow10(MilliDigits - 2) - f.m) <= Pow10(MilliDigits - 2)

\* the step appends exactly one row, of user u, with these fields
AppendsOne(u, kind, amount, category, descr) ==
    \E r \in transactions' \ transactions :
        /\ transactions' = transactions \cup {r}
        /\ \E w \in users' : w.telegram_id = u /\ w.id = r.user_id
        /\ r.type = kind
        /\ SameAmount(r.amount, amount)
        /\ r.category = category
        /\ r.description = descr

Idle(u) == fsm_state'[u] = ST_NONE /\ fsm_data'[u] = EmptyData

Entry(k, u) ==
    \/ k = "expense" /\ btn_expense(u)
    \/ k = "income" /\ btn_income(u)
EnterAmount(k, u, t) ==
    \/ k = "expense" /\ expense_enter_amount(u, t)
    \/ k = "income" /\ income_enter_amount(u, t)
ChooseCategory(k, u, t) ==
    \/ k = "expense" /\ expense_choose_category(u, t)
    \/ k = "income" /\ income_choose_category(u, t)
CustomCategory(k, u, t) ==
    \/ k = "expense" /\ expense_custom_category(u, t)
    \/ k = "income" /\ income_custom_category(u, t)
NeedDescription(k, u, t) ==
    \/ k = "expense" /\ expense_need_description(u, t, "none")
    \/ k = "income" /\ income_need_description(u, t, "none")
Description(k, u, t) ==
    \/ k = "expense" /\ expense_description(u, t, "none")
    \/ k = "income" /\ income_description(u, t, "none")

\* the number an amount text stands for, when it is a valid amount
AmountOf(t) == float(replace_comma(strip(t)))
ValidAmount(t) ==
    /\ ~IsNone(AmountOf(t))
    /\ Get(AmountOf(t)).k = "num"
    /\ Get(AmountOf(t)).m > 0

\* the accumulator of a dialog that has taken a valid amount and a category
Collected(k, u) ==
    /\ ~IsNone(fsm_data[u].amount)
    /\ Get(fsm_data[u].amount).k = "num"
    /\ Get(fsm_data[u].amount).m > 0
    /\ ~IsNone(fsm_data[u].category)

\* C6: a dialog run (entry button of kind K, a valid amount A, a category C
\* from the catalog of K or typed after the custom button, then "no" or "yes"
\* and a description) keeps K, A and C in the session step by step, appends
\* nothing before its last step, and in its last step appends exactly one
\* transaction (K, A, C, description = the entered text, absent after "no" or
\* an empty text) and ends in Idle
C6_DialogAppendsOneAtTheEnd ==
    [][\A u \in Users, k \in Kinds :
          /\ Entry(k, u) =>
                /\ fsm_state'[u] = StateOf(k, "amount")
                /\ fsm_data'[u] = EmptyData
                /\ transactions' = transactions
          /\ fsm_state[u] = StateOf(k, "amount") =>
                \A t \in AmountTexts :
                    ValidAmount(t) /\ EnterAmount(k, u, t) =>
                        /\ fsm_state'[u] = StateOf(k, "category")
                        /\ fsm_data'[u] = [fsm_data[u] EXCEPT !.amount = AmountOf(t)]
                        /\ transactions' = transactions
          /\ fsm_state[u] = StateOf(k, "category") =>
                \A t \in CategoryTexts :
                    /\ InList(strip(t), Categories(k)) /\ ChooseCategory(k, u, t) =>
                          /\ fsm_state'[u] = StateOf(k, "need_description")
                          /\ fsm_data'[u] =
                                [fsm_data[u] EXCEPT !.category = Some(strip(t))]
                          /\ transactions' = transactions
                    /\ strip(t) = CUSTOM /\ ChooseCategory(k, u, t) =>
                          /\ fsm_state'[u] = StateOf(k, "maybe_custom_category")
                          /\ fsm_data'[u] = fsm_data[u]
                          /\ transactions' = transactions
          /\ fsm_state[u] = StateOf(k, "maybe_custom_category") =>
                \A t \in CustomTexts :
                    strip(t) # <<>> /\ CustomCategory(k, u, t) =>
                        /\ fsm_state'[u] = StateOf(k, "need_description")
                        /\ fsm_data'[u] =
                              [fsm_data[u] EXCEPT !.category = Some(strip(t))]
                        /\ transactions' = transactions
          /\ fsm_state[u] = StateOf(k, "need_description") =>
                \A t \in AnswerTexts :
                    /\ lower(strip(t)) = <<"da">> /\ NeedDescription(k, u, t) =>
                          /\ fsm_state'[u] = StateOf(k, "description")
                          /\ fsm_data'[u] = fsm_data[u]
                          /\ transactions' = transactions
                    /\ (/\ lower(strip(t)) = <<"net">>
                        /\ Collected(k, u)
                        /\ NeedDescription(k, u, t)) =>
                          /\ AppendsOne(u, k, Get(fsm_data[u].amount),
                                        Get(fsm_data[u].category), None)
                          /\ Idle(u)
          /\ fsm_state[u] = StateOf(k, "description") =>
                \A t \in DescriptionTexts :
                    Collected(k, u) /\ Description(k, u, t) =>
                        /\ AppendsOne(u, k, Get(fsm_data[u].amount),
                                      Get(fsm_data[u].category),
                                      IF strip(t) = <<>> THEN None ELSE Some(strip(t)))
                        /\ Idle(u)]_vars

\* a dialog has ended with a custom category and a description in the ledger
C6_Witness ==
    \E r \in transactions :
        /\ r.origin = "typed"
        /\ r.category = T_WORD
        /\ r.description = Some(T_WORD)
        /\ r.amount = 250
        /\ fsm_state["u1"] = ST_NONE

-----------------------------------------------------------------------------
(* The voice pipeline (SpecVoice) *)

Rejected(nlu) ==
    nlu.stage # "parsed" \/ ~IsNone(_validate_voice_json(nlu.data).err)

\* the outcomes that yield no valid candidate
RejectedOutcomes == {nlu \in NluOutcomes : Rejected(nlu)}

\* the parsed outcomes whose kind resolves and whose amount is a number above 0
ValidOutcomes ==
    {nlu \in NluOutcomes :
        /\ nlu.stage = "parsed"
        /\ resolve_type(nlu.data) \in Kinds
        /\ ~IsNone(float_json(nlu.data.amount))
        /\ Get(float_json(nlu.data.amount)).k = "num"
        /\ Get(float_json(nlu.data.amount)).m > 0}

\* C8: an audio event that yields no valid candidate (a failed download,
\* transcription or parse, or a candidate the validation rejects, such as
\* kind expense with amount -5) leaves the session state and the accumulator
\* exactly as they were, appends nothing, and no exception leaves the handler
C8_RejectedAudioChangesNothing ==
    /\ Rejected(Candidate(JStr(<<"expense">>), JNum(Num(-5000)), JNull, JNull))
    /\ [][\A u \in Users, nlu \in RejectedOutcomes :
             handle_voice(u, nlu) =>
                 /\ fsm_state'[u] = fsm_state[u]
                 /\ fsm_data'[u] = fsm_data[u]
                 /\ transactions' = transactions
                 /\ reply'.msg \notin {"exception", "confirm?"}]_vars

\* a non-positive amount was refused while the user was inside the dialog
C8_Witness ==
    /\ reply.msg = "invalid"
    /\ reply.detail = ERR_NOT_POSITIVE
    /\ fsm_state["u1"] = StateOf("expense", "category")
    /\ ~IsNone(fsm_data["u1"].amount)

\* C9: a candidate whose kind resolves to K, with a valid amount, is accepted;
\* its category is kept as it came when it is in the list of K and is the
\* fallback label otherwise, in the stored candidate and in the confirmation
\* prompt, and the transaction appended after "yes" carries the stored label
C9_CategoryFallback ==
    [][\A u \in Users :
          /\ \A nlu \in ValidOutcomes :
                LET K == resolve_type(nlu.data)
                    raw == str_or_empty(nlu.data.category)
                    label == IF InList(strip(raw), Categories(K)) THEN raw ELSE PROCHEE
                IN  handle_voice(u, nlu) =>
                        /\ fsm_state'[u] = ST_VOICE
                        /\ ~IsNone(fsm_data'[u].voice_tx)
                        /\ Get(fsm_data'[u].voice_tx).type = K
                        /\ Get(fsm_data'[u].voice_tx).category = label
                        /\ reply'.msg = "confirm?"
                        /\ reply'.category = Some(label)
          /\ \A t \in AnswerTexts :
                (/\ fsm_state[u] = ST_VOICE
                 /\ lower(strip(t)) = <<"da">>
                 /\ ~IsNone(fsm_data[u].voice_tx)
                 /\ Get(fsm_data[u].voice_tx).amount.k = "num"
                 /\ voice_confirm(u, TextEvent(t), "none")) =>
                    \E r \in transactions' \ transactions :
                        r.category = Get(fsm_data[u].voice_tx).category]_vars

\* a category outside the lists was confirmed and stored as the fallback
C9_Witness ==
    /\ reply.msg = "voice added"
    /\ reply.category = Some(PROCHEE)
    /\ \E r \in transactions : r.origin = "voice_tx" /\ r.category = PROCHEE

\* a category of the list, with the blank it came with, waits for the answer
C9_WitnessKept ==
    /\ fsm_state["u1"] = ST_VOICE
    /\ reply.msg = "confirm?"
    /\ reply.category = Some(<<" ", "Eda">>)

-----------------------------------------------------------------------------
(* The command path against the dialog path (SpecEquiv) *)

\* kind, amount and category of the rows of user u
Fields(u) ==
    {[type |-> r.type, amount |-> r.amount, category |-> r.category] : r \in RowsOf(u)}

\* both paths have run: the dialog of u1 asks for nothing more
EquivDone ==
    /\ reply.to = "u1"
    /\ reply.msg \notin {"enter amount", "choose category", "enter category",
                         "add description?"}

\* a text that is one word: not blank, no blank inside
OneWord(t) == strip(t) # <<>> /\ \A i \in 1..Len(strip(t)) : strip(t)[i] # " "

\* C10 as stated: for every amount text and every non-empty category text
\* the command appends a transaction exactly when the dialog (amount step,
\* then custom category step) appends one, with the same kind, amount and
\* category
C10_PathsAgree == EquivDone => Fields("u1") = Fields("u2")

\* C10, amended: the two paths agree for every amount text and category text
\* that are one word each, the category being neither a period button nor a
\* bot command
C10_PathsAgreeOnWords ==
    (/\ EquivDone
     /\ OneWord(probe.amount)
     /\ OneWord(probe.category)
     /\ strip(probe.category) \notin PERIOD_BUTTONS
     /\ Head(strip(probe.category)) # "/") =>
        Fields("u1") = Fields("u2")

\* an amount written with a comma and a custom category, appended on both paths
C10_Witness ==
    /\ EquivDone
    /\ probe.amount = T_AMOUNT_COMMA
    /\ probe.category = T_WORD
    /\ Fields("u1") # {}
    /\ Fields("u1") = Fields("u2")

-----------------------------------------------------------------------------
(* The add commands in every session state, with their messages (SpecAdd) *)

\* the router on /add_expense or /add_income with arguments args
deliver_add(kind, u, args, fault) ==
    \/ kind = "expense" /\ cmd_add_expense(u, args, fault)
    \/ kind = "income" /\ cmd_add_income(u, args, fault)
    \/ voice_confirm(u, CommandEvent(IF kind = "expense" THEN "add_expense"
                                     ELSE "add_income", args), fault)

AddCandidate == Candidate(JStr(<<"expense">>), JNum(Num(2500)), JStr(<<"Eda">>), JNull)

\* the texts tried in the custom category step: a word, bare and with a
\* space before it, the cancel keyword, a blank and a message without text
CustomStepTexts == CustomTexts \cup {<<" ">> \o T_WORD, <<" ">>}

InitAdd == Start(TRUE, NoProbe)

\* the session is walked through every state, and the commands arrive in each
NextAdd ==
    \E u \in {"u1"} :
        \/ btn_expense(u)
        \/ btn_income(u)
        \/ expense_enter_amount(u, T_AMOUNT)
        \/ income_enter_amount(u, T_AMOUNT)
        \/ \E t \in CategoryTexts : expense_choose_category(u, t)
        \/ \E t \in CategoryTexts : income_choose_category(u, t)
        \/ \E t \in CustomStepTexts : expense_custom_category(u, t)
        \/ \E t \in CustomStepTexts : income_custom_category(u, t)
        \/ \E t \in AnswerTexts :
            expense_need_description(u, t, "none") /\ Inserts(MaxInserts)
        \/ \E t \in AnswerTexts :
            income_need_description(u, t, "none") /\ Inserts(MaxInserts)
        \/ \E t \in DescriptionTexts :
            expense_description(u, t, "none") /\ Inserts(MaxInserts)
        \/ \E t \in DescriptionTexts :
            income_description(u, t, "none") /\ Inserts(MaxInserts)
        \/ btn_balance(u, "none")
        \/ btn_stats_hint(u)
        \/ \E t \in PeriodTexts : btn_stats_period(u, t, "none")
        \/ btn_delete_last(u, "none")
        \/ btn_help(u)
        \/ handle_voice(u, AddCandidate)
        \/ \E t \in AnswerTexts :
            voice_confirm(u, TextEvent(t), "none") /\ Inserts(MaxInserts)
        \/ \E k \in Kinds, a \in CmdArgs :
            deliver_add(k, u, a, "none") /\ Inserts(MaxInserts)

SpecAdd == InitAdd /\ [][NextAdd]_vars

\* the arguments parse to an amount greater than zero and a category
WellFormed(args) ==
    /\ IsNone(_parse_add_args(args).err)
    /\ _parse_add_args(args).amount.k = "num"

\* C11: an add_expense or add_income command whose arguments are well formed,
\* arriving in any session state (the dialog states and
\* AwaitingVoiceConfirmation included), appends exactly one transaction of
\* that kind with the parsed amount and category; with malformed arguments
\* it appends nothing
C11_AddCommandInEveryState ==
    [][\A u \in Users, k \in Kinds, a \in CmdArgs :
          deliver_add(k, u, a, "none") =>
              IF WellFormed(a)
              THEN AppendsOne(u, k, _parse_add_args(a).amount,
                              _parse_add_args(a).category,
                              _parse_add_args(a).description)
              ELSE transactions' = transactions]_vars

-----------------------------------------------------------------------------
(* Update tasks (SpecTasks).  bot.py starts dp.start_polling with its      *)
(* defaults and a Dispatcher without events isolation: every update is     *)
(* handled in a task of its own, and no lock of src/ makes a task wait for *)
(* an earlier task of the same user.  A task runs alone up to an await     *)
(* that suspends it; the calls of MemoryStorage do not suspend, the calls  *)
(* of the Database do.  voice_confirm on "yes" is taken await by await.    *)

MaxTasks == 2

\* "Da" passes the state filter; the candidate is read from the session,
\* and the task is suspended in ensure_user
voice_confirm_begin(u, t) ==
    /\ On("voice_confirm", u, TextEvent(t))
    /\ confirm_answer(lower(strip(t))) = "yes"
    /\ Cardinality(handle_update_tasks) < MaxTasks
    /\ handle_update_tasks' = handle_update_tasks \cup
            {[id |-> CHOOSE i \in 1..MaxTasks :
                        /\ \A o \in handle_update_tasks : o.id # i
                        /\ \A j \in 1..(i - 1) :
                              \E o \in handle_update_tasks : o.id = j,
              user |-> u, pc |-> "ensure_user",
              voice_tx |-> voice_tx_or_default(fsm_data[u]), user_id |-> 0]}
    /\ UNCHANGED <<fsm_state, fsm_data, users, transactions, users_auto, tx_auto, now,
                   reply, observed, probe>>

\* ensure_user returns; the task is suspended in add_transaction
voice_confirm_ensure_user(task) ==
    LET eu == ensure_user(task.user)
    IN  /\ task.pc = "ensure_user"
        /\ users' = eu.users
        /\ users_auto' = eu.users_auto
        /\ handle_update_tasks' = (handle_update_tasks \ {task}) \cup
                {[task EXCEPT !.pc = "add_transaction", !.user_id = eu.id]}
        /\ UNCHANGED <<fsm_state, fsm_data, transactions, tx_auto, now, reply, observed,
                       probe>>

\* the INSERT of add_transaction is committed
voice_confirm_add_transaction(task) ==
    LET c == task.voice_tx
    IN  /\ task.pc = "add_transaction"
        /\ add_transaction_error(c.type, c.amount) = ""
        /\ transactions' = transactions \cup
                {NewRow(task.user_id, c.type, c.amount, c.category, c.description,
                        "voice_tx")}
        /\ tx_auto' = tx_auto + 1
        /\ handle_update_tasks' = (handle_update_tasks \ {task}) \cup
                {[task EXCEPT !.pc = "clear"]}
        /\ UNCHANGED <<fsm_state, fsm_data, users, users_auto, now, reply, observed,
                       probe>>

\* add_transaction returns: state.clear(), the answer, and the task ends
voice_confirm_clear(task) ==
    /\ task.pc = "clear"
    /\ clear(task.user)
    /\ reply' = [Msg(task.user, "voice added") EXCEPT
                        !.detail = task.voice_tx.type,
                        !.category = Some(task.voice_tx.category)]
    /\ handle_update_tasks' = handle_update_tasks \ {task}
    /\ UNCHANGED <<users, transactions, users_auto, tx_auto, now, observed, probe>>

InitTasks == Start(TRUE, NoProbe)

NextTasks ==
    \/ \E u \in Users :
        \/ \E nlu \in {AddCandidate, [stage |-> "parse_failed", data |-> NoData]} : handle_voice(u, nlu)
        \/ voice_confirm_begin(u, T_DA)
        \/ \E t \in {T_NET, T_WORD} : voice_confirm(u, TextEvent(t), "none")
    \/ \E task \in handle_update_tasks :
        \/ voice_confirm_ensure_user(task)
        \/ voice_confirm_add_transaction(task) /\ Inserts(MaxLedgerInserts)
        \/ voice_confirm_clear(task)

SpecTasks == InitTasks /\ [][NextTasks]_vars

\* C12: the events of one user are handled one after the other: in no
\* reachable state are two transitions of the same user in flight
C12_OneInFlightPerUser ==
    \A u \in Users :
        Cardinality({task \in handle_update_tasks : task.user = u}) <= 1

-----------------------------------------------------------------------------
(* Store failures at finalization (Spec) *)

\* the finalizing step of the dialog of kind k on text t, a store call failing
FinalizeDialog(k, u, t, fault) ==
    \/ /\ fsm_state[u] = StateOf(k, "need_description")
       /\ lower(strip(t)) = <<"net">>
       /\ \/ k = "expense" /\ expense_need_description(u, t, fault)
          \/ k = "income" /\ income_need_description(u, t, fault)
    \/ /\ fsm_state[u] = StateOf(k, "description")
       /\ \/ k = "expense" /\ expense_description(u, t, fault)
          \/ k = "income" /\ income_description(u, t, fault)

\* the session of u is after the step what it was before
SessionKept(u) == fsm_state'[u] = fsm_state[u] /\ fsm_data'[u] = fsm_data[u]

\* C13: when ensure_user or add_transaction fails in a finalization, on the
\* dialog path or on the voice confirmation path, the session state and the
\* accumulator are after the event what they were before it
C13_StoreFailureKeepsSession ==
    [][\A u \in Users, fault \in Faults \ {"none"} :
          /\ \A k \in Kinds, t \in AnswerTexts \cup DescriptionTexts :
                FinalizeDialog(k, u, t, fault) => SessionKept(u)
          /\ fsm_state[u] = ST_VOICE =>
                \A t \in AnswerTexts :
                    (/\ lower(strip(t)) = <<"da">>
                     /\ voice_confirm(u, TextEvent(t), fault)) => SessionKept(u)]_vars

-----------------------------------------------------------------------------
(* The decimal separator (SpecSep): one amount text, written with "." by   *)
(* u1 and with "," by u2, on the command path and in the amount step       *)

SepIntegers == {<<>>, <<"0">>, <<"2">>, <<"1", "0">>}
SepFractions == {<<>>, <<"5">>, <<"2", "5">>, <<"0", "0", "4">>}

\* the valid amount texts: digits around one ".", worth more than zero
SepAmounts ==
    {t \in {ip \o <<".">> \o fp : ip \in SepIntegers, fp \in SepFractions} :
        ~IsNone(float(t)) /\ ~LeZero(Get(float(t)))}

\* the text with "," for "."
with_comma(s) == [i \in 1..Len(s) |-> IF s[i] = "." THEN "," ELSE s[i]]

SepText(u) == IF u = "u1" THEN probe.amount ELSE with_comma(probe.amount)
SepArgs(u) == Some(SepText(u) \o <<" ", "Eda">>)

InitSep ==
    \E k \in Kinds, a \in SepAmounts :
        Start(TRUE, [kind |-> k, amount |-> a, category |-> <<"Eda">>])

NextSep ==
    \E u \in Users :
        \/ probe.kind = "expense" /\ btn_expense(u)
        \/ probe.kind = "income" /\ btn_income(u)
        \/ expense_enter_amount(u, SepText(u))
        \/ income_enter_amount(u, SepText(u))
        \/ /\ probe.kind = "expense"
           /\ cmd_add_expense(u, SepArgs(u), "none")
           /\ Inserts(MaxLedgerInserts)
        \/ /\ probe.kind = "income"
           /\ cmd_add_income(u, SepArgs(u), "none")
           /\ Inserts(MaxLedgerInserts)

SpecSep == InitSep /\ [][NextSep]_vars

\* C14: "," and "." are the same decimal separator: for every valid amount
\* text, the version with "," and the version with "." are both accepted and
\* yield the same number, on the command path and in the dialog's amount step
C14_CommaIsDot ==
    [][\A u \in Users :
          LET k == probe.kind
              amount == Get(float(probe.amount))
          IN  /\ EnterAmount(k, u, SepText(u)) =>
                    /\ fsm_state'[u] = StateOf(k, "category")
                    /\ fsm_data'[u].amount = Some(amount)
              /\ deliver_add(k, u, SepArgs(u), "none") =>
                    /\ IsNone(_parse_add_args(SepArgs(u)).err)
                    /\ _parse_add_args(SepArgs(u)).amount = amount
                    /\ AppendsOne(u, k, amount, <<"Eda">>, None)]_vars

\* 10,25 was taken from u2 on both paths, as 10.25 was from u1
C14_Witness ==
    /\ probe.amount = <<"1", "0", ".", "2", "5">>
    /\ \A u \in Users :
        /\ fsm_data[u].amount = Some(Num(10250))
        /\ \E r \in RowsOf(u) : r.amount = 1025

-----------------------------------------------------------------------------
(* Periods (SpecPeriod): the stats command at instants of two weeks *)

MaxDay == 13

\* seconds of the day: midnight, the second after it, noon, the last second
DaySeconds == {0, 1, DAY \div 2, DAY - 1}

InitPeriod ==
    /\ fsm_state = [u \in Users |-> ST_NONE]
    /\ fsm_data = [u \in Users |-> EmptyData]
    /\ users = {}
    /\ transactions = {}
    /\ users_auto = 1
    /\ tx_auto = 1
    /\ now \in {d * DAY + s : d \in 0..MaxDay, s \in DaySeconds}
    /\ reply = Msg("", "")
    /\ observed = TRUE
    /\ probe = NoProbe
    /\ handle_update_tasks = {}

NextPeriod ==
    \E u \in {"u1"} :
        \/ cmd_add_expense(u, Some(T_AMOUNT \o <<" ", "Eda">>), "none")
           /\ Inserts(MaxInserts)
        \/ \E p \in PERIODS : cmd_stats(u, Some(p), "none")

SpecPeriod == InitPeriod /\ [][NextPeriod]_vars

\* C15: at every UTC instant now, the start of the period "week" is 00:00:00
\* of a Monday, is not later than now, and is less than 7 days before now
C15_WeekStartsOnMonday ==
    LET start == _period_start("week")
    IN  /\ start % DAY = 0
        /\ (start \div DAY) % 7 = 0
        /\ start <= now
        /\ now - start < 7 * DAY

\* the week's stats were asked for in the last second of the second Sunday
C15_Witness ==
    /\ reply.msg = "stats"
    /\ reply.detail = "week"
    /\ now = 13 * DAY + DAY - 1
    /\ _period_start("week") = 7 * DAY

-----------------------------------------------------------------------------
(* Statistics (SpecStats): one user adds a transaction per category, day 1 *)
(* or day 2, and asks for the stats of the day and of the week             *)

MaxStatsInserts == 11
MaxStatsDays == 1

\* the claimed number of categories per kind ("top 10 each")
TopPerKind == 10

\* category names in ascending order
NameOrder ==
    <<<<"a">>, <<"b">>, <<"c">>, <<"d">>, <<"e">>, <<"f">>, <<"g">>, <<"h">>,
      <<"i">>, <<"j">>, <<"k">>, <<"l">>, <<"m">>>>

NameBefore(a, b) ==
    \E i, j \in 1..Len(NameOrder) : i < j /\ NameOrder[i] = a /\ NameOrder[j] = b

\* the decimal digits of n, 0 < n < 100
NumberText(n) ==
    LET d(i) == CHOOSE c \in Digits : DigitVal(c) = i
    IN  IF n < 10 THEN <<d(n)>> ELSE <<d(n \div 10), d(n % 10)>>

\* the arguments of the n-th add command: amount n (1 or 2 for the first,
\* 2 for the second: two categories may tie), category the n-th name
StatsArgsOf(n) ==
    {Some(NumberText(a) \o <<" ">> \o NameOrder[n]) :
        a \in IF n = 1 THEN {1, 2} ELSE IF n = 2 THEN {2} ELSE {n}}

NextDay ==
    /\ now < MaxStatsDays * DAY
    /\ now' = now + DAY
    /\ UNCHANGED <<fsm_state, fsm_data, users, transactions, users_auto, tx_auto, reply,
                   observed, probe, handle_update_tasks>>

InitStats == Start(TRUE, NoProbe)

NextStats ==
    \/ NextDay
    \/ \E u \in {"u1"} :
        \/ \E a \in StatsArgsOf(tx_auto) :
            cmd_add_expense(u, a, "none") /\ Inserts(MaxStatsInserts)
        \/ \E a \in StatsArgsOf(tx_auto) :
            tx_auto = 1 /\ cmd_add_income(u, a, "none")
        \/ \E p \in {<<"day">>, <<"week">>} : cmd_stats(u, Some(p), "none")

SpecStats == InitStats /\ [][NextStats]_vars

\* the total of kind k and category c among user_id's rows of the period
PeriodTotal(user_id, period, k, c) ==
    SumAmount({r \in UserTx(user_id) :
                /\ r.created_at >= _period_start(period)
                /\ r.type = k
                /\ r.category = c})

PeriodCategories(user_id, period, k) ==
    {r.category : r \in {x \in UserTx(user_id) :
                            x.created_at >= _period_start(period) /\ x.type = k}}

\* C16: stats returns for each kind at most 10 categories, those with the
\* largest totals in the period, ordered by total descending
C16_TopTenPerKind ==
    \A w \in users, p \in {"day", "week"} :
        \A s \in get_stats(w.id, p), k \in Kinds :
            LET top == s.by_category[k]
                all == PeriodCategories(w.id, p, k)
                listed == {top[i][1] : i \in 1..Len(top)}
            IN  /\ Len(top) <= TopPerKind
                /\ Cardinality(listed) = Len(top)
                /\ listed \subseteq all
                /\ Len(top) < TopPerKind => listed = all
                /\ \A i \in 1..Len(top) :
                        top[i][2] = PeriodTotal(w.id, p, k, top[i][1])
                /\ \A i, j \in 1..Len(top) : i < j => top[i][2] >= top[j][2]
                /\ \A c \in all \ listed, i \in 1..Len(top) :
                        PeriodTotal(w.id, p, k, c) <= top[i][2]

\* C17: the ranking is deterministic: categories of equal total are listed
\* in ascending order of the category name
C17_TiesByName ==
    \A w \in users, p \in {"day", "week"} :
        \A s \in get_stats(w.id, p), k \in Kinds :
            LET top == s.by_category[k]
            IN  \A i, j \in 1..Len(top) :
                    i < j /\ top[i][2] = top[j][2] => NameBefore(top[i][1], top[j][1])

-----------------------------------------------------------------------------
(* Balance and stats requests of two users over a ledger (SpecRead) *)

InitRead == Start(TRUE, NoProbe)

NextRead ==
    \E u \in Users :
        \/ \E a \in LedgerArgs : cmd_add_expense(u, a, "none") /\ Inserts(MaxInserts)
        \/ \E fault \in Faults :
            \/ cmd_balance(u, fault)
            \/ btn_balance(u, fault)
            \/ \E a \in StatsArgs : cmd_stats(u, a, fault)
            \/ \E t \in PeriodTexts : btn_stats_period(u, t, fault)

SpecRead == InitRead /\ [][NextRead]_vars

\* a balance or stats request of u, by command or by menu button
ReadRequest(u, fault) ==
    \/ cmd_balance(u, fault)
    \/ btn_balance(u, fault)
    \/ \E a \in StatsArgs : cmd_stats(u, a, fault)
    \/ \E t \in PeriodTexts : btn_stats_period(u, t, fault)

\* C18 as stated: a balance or stats request, by command or by menu button,
\* leaves the set of transactions and the set of users unchanged
C18_ReadOnly ==
    [][\A u \in Users, fault \in Faults :
          ReadRequest(u, fault) =>
              transactions' = transactions /\ users' = users]_vars

\* C18: a balance or stats request, by command or by menu button, leaves
\* the set of transactions unchanged, and leaves the set of users unchanged
\* except that a requesting user who has no record yet may get one
C18_ReadOnlyButForTheUser ==
    [][\A u \in Users, fault \in Faults :
          ReadRequest(u, fault) =>
              /\ transactions' = transactions
              /\ users \subseteq users'
              /\ \A w \in users' \ users : w.telegram_id = u
              /\ (\E w \in users : w.telegram_id = u) => users' = users]_vars

\* u2 asked for the balance, is now a user without transactions, and the
\* transaction of u1 is still there
C18_Witness ==
    /\ reply.msg = "balance"
    /\ reply.to = "u2"
    /\ \E w \in users : w.telegram_id = "u2"
    /\ RowsOf("u2") = {}
    /\ RowsOf("u1") # {}

-----------------------------------------------------------------------------
(* The amount and category steps (Spec) *)

\* C19: in AwaitingAmount(kind) every input that is not a number greater
\* than zero leaves the session in AwaitingAmount of that kind with the
\* accumulator unchanged and appends nothing; every number greater than zero
\* moves the session to AwaitingCategory of that kind with that amount
C19_AmountStep ==
    [][\A u \in Users, k \in Kinds :
          fsm_state[u] = StateOf(k, "amount") =>
              \A t \in AmountTexts :
                  deliver_text(u, t, "none") =>
                      /\ transactions' = transactions
                      /\ IF ValidAmount(t)
                         THEN /\ fsm_state'[u] = StateOf(k, "category")
                              /\ fsm_data'[u] =
                                    [fsm_data[u] EXCEPT !.amount = AmountOf(t)]
                         ELSE SessionKept(u)]_vars

\* the texts tried in the category step: the category texts and the buttons
\* of the main menu
CategoryStepTexts ==
    CategoryTexts \cup PeriodTexts \cup
    {BTN_EXPENSE, BTN_INCOME, BTN_BALANCE, BTN_STATS, BTN_DELETE_LAST, BTN_HELP}

\* what the category step of kind k does with text t, the entry buttons and
\* the cancel keyword left aside
CategoryStep(k, u, t) ==
    IF strip(t) = CUSTOM
    THEN /\ fsm_state'[u] = StateOf(k, "maybe_custom_category")
         /\ fsm_data'[u] = fsm_data[u]
    ELSE IF InList(strip(t), Categories(k))
    THEN /\ fsm_state'[u] = StateOf(k, "need_description")
         /\ fsm_data'[u] = [fsm_data[u] EXCEPT !.category = Some(strip(t))]
    ELSE SessionKept(u)

\* C20 as stated: in AwaitingCategory(kind, amount) the custom button leads
\* to AwaitingCustomCategory, a category of the kind's catalog leads to
\* AwaitingDescriptionChoice with that category, and every other input but
\* the cancel keyword leaves state, kind and amount unchanged (a category of
\* the other kind's catalog among them)
C20_CategoryStep ==
    [][\A u \in Users, k \in Kinds :
          fsm_state[u] = StateOf(k, "category") =>
              \A t \in CategoryStepTexts \ {CANCEL}, fault \in Faults :
                  deliver_text(u, t, fault) => CategoryStep(k, u, t)]_vars

\* C20, of every text message other than the cancel keyword and the two
\* entry buttons of the dialog
C20_CategoryStepButEntryButtons ==
    [][\A u \in Users, k \in Kinds :
          fsm_state[u] = StateOf(k, "category") =>
              \A t \in CategoryStepTexts \ {CANCEL, BTN_EXPENSE, BTN_INCOME},
                 fault \in Faults :
                  deliver_text(u, t, fault) => CategoryStep(k, u, t)]_vars

\* an income category was refused in the category step of an expense
C20_Witness ==
    /\ reply.msg = "choose from keyboard"
    /\ fsm_state["u1"] = StateOf("expense", "category")
    /\ fsm_data["u1"].amount = Some(Num(2500))
    /\ fsm_data["u1"].category = None

\* a category of the catalog was taken
C20_WitnessTaken ==
    /\ fsm_state["u1"] = StateOf("income", "need_description")
    /\ fsm_data["u1"].category = Some(<<"Zarplata">>)

-----------------------------------------------------------------------------
(* The later steps of the dialog, with the menu (SpecAdd) *)

\* the labels of the main menu and of the period keyboard
MenuTexts ==
    PeriodTexts \cup
    {BTN_EXPENSE, BTN_INCOME, BTN_BALANCE, BTN_STATS, BTN_DELETE_LAST, BTN_HELP}

DescriptionChoice(k, u, t) ==
    IF lower(strip(t)) = <<"da">>
    THEN /\ fsm_state'[u] = StateOf(k, "description")
         /\ fsm_data'[u] = fsm_data[u]
         /\ transactions' = transactions
    ELSE IF lower(strip(t)) = <<"net">>
    THEN Collected(k, u) =>
            /\ AppendsOne(u, k, Get(fsm_data[u].amount), Get(fsm_data[u].category),
                          None)
            /\ Idle(u)
    ELSE IF lower(strip(t)) = <<"otmena">> THEN TRUE
    ELSE SessionKept(u) /\ transactions' \subseteq transactions

DescriptionTaken(k, u, t) ==
    /\ AppendsOne(u, k, Get(fsm_data[u].amount), Get(fsm_data[u].category),
                  IF strip(t) = <<>> THEN None ELSE Some(strip(t)))
    /\ Idle(u)

CandidateKept(u) == SessionKept(u) /\ transactions' \subseteq transactions

\* C24 as stated: in AwaitingVoiceConfirmation every input other than yes, no
\* and the cancel keyword, the menu button labels and the text commands
\* included, leaves the session in AwaitingVoiceConfirmation with the same
\* candidate and appends nothing
C24_VoiceConfirmationStep ==
    [][\A u \in Users :
          fsm_state[u] = ST_VOICE =>
              /\ \A t \in (AnswerTexts \cup MenuTexts) \ {T_DA, T_NET, CANCEL} :
                    deliver_text(u, t, "none") => CandidateKept(u)
              /\ \A c \in Kinds, a \in CmdArgs :
                    deliver_add(c, u, a, "none") => CandidateKept(u)]_vars

\* C24, of the text messages other than the two dialog entry buttons
C24_VoiceConfirmationStepButEntryButtons ==
    [][\A u \in Users :
          fsm_state[u] = ST_VOICE =>
              /\ \A t \in (AnswerTexts \cup MenuTexts) \
                          {T_DA, T_NET, CANCEL, BTN_EXPENSE, BTN_INCOME} :
                    deliver_text(u, t, "none") => CandidateKept(u)
              /\ \A c \in Kinds, a \in CmdArgs :
                    deliver_add(c, u, a, "none") => CandidateKept(u)]_vars

\* the confirmation step has asked again and still holds the candidate
C24_Witness ==
    /\ reply.msg = "choose yes or no"
    /\ fsm_state["u1"] = ST_VOICE
    /\ ~IsNone(fsm_data["u1"].voice_tx)
    /\ Get(fsm_data["u1"].voice_tx).category = <<"Eda">>

\* the states of the two dialogs, AwaitingAmount to AwaitingDescription
DialogStates ==
    {StateOf(k, step) :
        k \in Kinds,
        step \in {"amount", "category", "maybe_custom_category", "need_description",
                  "description"}}

\* C25: an audio event that yields a valid candidate while the session is in
\* a dialog state does not overwrite that session: the dialog state and its
\* accumulated fields are the same after the event as before it
C25_AudioKeepsDialog ==
    [][\A u \in Users, nlu \in ValidOutcomes :
          fsm_state[u] \in DialogStates /\ handle_voice(u, nlu) =>
              SessionKept(u)]_vars

\* the kinds the three steps allow for a candidate: the label itself, else
\* the kind of a synonym, else the kinds whose catalog lists the category
KindsAllowed(data) ==
    LET label == lower(strip(str_or_empty(data.type)))
        category == strip(str_or_empty(data.category))
    IN  IF label \in {<<k>> : k \in Kinds} THEN {k \in Kinds : label = <<k>>}
        ELSE IF label \in income_syn \cup expense_syn
        THEN {k \in Kinds : label \in (IF k = "income" THEN income_syn
                                       ELSE expense_syn)}
        ELSE {k \in Kinds : InList(category, Categories(k))}

\* C26: the kind of a candidate is its label when the label is expense or
\* income, otherwise the kind of the label's synonym, otherwise a kind whose
\* catalog lists the category; the candidate is refused for its kind exactly
\* when none of the three gives one, and a candidate that is accepted has
\* one of the two kinds, the label or synonym going before the category
C26_KindResolution ==
    [][\A u \in Users, nlu \in NluOutcomes :
          nlu.stage = "parsed" /\ handle_voice(u, nlu) =>
              /\ (reply'.msg = "invalid" /\ reply'.detail = ERR_TYPE)
                    <=> KindsAllowed(nlu.data) = {}
              /\ reply'.msg = "confirm?" =>
                    /\ reply'.detail \in Kinds \cap KindsAllowed(nlu.data)
                    /\ Get(fsm_data'[u].voice_tx).type = reply'.detail]_vars

\* a candidate with an unknown label was given the kind of its category
C26_Witness ==
    /\ reply.msg = "confirm?"
    /\ fsm_state["u1"] = ST_VOICE
    /\ Get(fsm_data["u1"].voice_tx).type = "expense"
    /\ Get(fsm_data["u1"].voice_tx).amount = Num(4)

-----------------------------------------------------------------------------
(* The amount in the three pipelines (Spec) *)

\* a parsed amount that is a number above zero with at most two digits after
\* the point
TwoDecimals(amount) ==
    /\ ~IsNone(amount)
    /\ Get(amount).k = "num"
    /\ Get(amount).m > 0
    /\ Get(amount).m % Pow10(MilliDigits - 2) = 0

\* the amount argument of an add command, None when there is none
ArgAmount(args) ==
    LET parts == IF IsNone(args) THEN <<>> ELSE split(strip(Get(args)))
    IN  IF parts = <<>> THEN None ELSE float(replace_comma(parts[1]))

\* C27: in every pipeline (command arguments, the amount step of the dialog,
\* a voice candidate) an amount that is not a number, is not above zero or
\* has more than two digits after the point is rejected: the command and the
\* candidate change nothing and the amount step keeps the session, and
\* nothing is appended
C27_AmountTwoDecimals ==
    [][\A u \in Users :
          /\ \A k \in Kinds, a \in CmdArgs, fault \in Faults :
                deliver_add(k, u, a, fault) /\ ~TwoDecimals(ArgAmount(a)) =>
                    transactions' = transactions
          /\ \A k \in Kinds, t \in AmountTexts \ {CANCEL}, fault \in Faults :
                /\ fsm_state[u] = StateOf(k, "amount")
                /\ deliver_text(u, t, fault)
                /\ ~TwoDecimals(AmountOf(t))
                => SessionKept(u) /\ transactions' = transactions
          /\ \A nlu \in NluOutcomes :
                /\ nlu.stage = "parsed"
                /\ handle_voice(u, nlu)
                /\ ~TwoDecimals(float_json(nlu.data.amount))
                => SessionKept(u) /\ transactions' = transactions]_vars

-----------------------------------------------------------------------------
(* Stats of two users over a ledger of several days (SpecTotals) *)

InitTotals == Start(TRUE, NoProbe)

NextTotals ==
    \/ NextDay
    \/ \E u \in Users :
        \/ \E a \in LedgerArgs :
            cmd_add_expense(u, a, "none") /\ Inserts(MaxLedgerInserts)
        \/ \E a \in LedgerArgs :
            cmd_add_income(u, a, "none") /\ Inserts(MaxLedgerInserts)
        \/ \E p \in {<<"day">>, <<"week">>} : cmd_stats(u, Some(p), "none")

SpecTotals == InitTotals /\ [][NextTotals]_vars

\* the sum of the amounts of the rows of kind k, row by row in id order
RECURSIVE KindTotal(_, _)
KindTotal(rows, k) ==
    IF rows = {} THEN 0
    ELSE LET last == CHOOSE r \in rows : \A x \in rows : x.id <= r.id
         IN  KindTotal(rows \ {last}, k) + (IF last.type = k THEN last.amount ELSE 0)

\* the rows of the user with external id u created at or after instant from
RowsSince(u, from) ==
    {r \in transactions :
        /\ \E w \in users : w.telegram_id = u /\ w.id = r.user_id
        /\ r.created_at >= from}

\* C28: for every user and period the income and expense totals of a stats
\* request are the sums of that user's transactions created at or after the
\* period start; when there is none, both totals are 0 and both category
\* lists are empty, and the request does not fail
C28_PeriodTotals ==
    [][\A u \in Users, p \in {"day", "week"} :
          cmd_stats(u, Some(<<p>>), "none") =>
              LET mine == RowsSince(u, _period_start(p))
                  shown == Get(reply'.value)
              IN  /\ reply'.msg = "stats"
                  /\ shown.income = KindTotal(mine, "income")
                  /\ shown.expense = KindTotal(mine, "expense")
                  /\ mine = {} =>
                        /\ shown.income = 0 /\ shown.expense = 0
                        /\ shown.inc_top = <<>> /\ shown.exp_top = <<>>
                  /\ \A s \in get_stats(ensure_user(u).id, p) :
                        /\ s.income_total = KindTotal(RowsSince(u, s.from), "income")
                        /\ s.expense_total = KindTotal(RowsSince(u, s.from), "expense")
                        /\ mine = {} =>
                              s.by_category = [income |-> <<>>, expense |-> <<>>]]_vars

\* a user whose only transaction is of the day before asked for the stats of
\* the day, while the other user has a transaction of the day
C28_Witness ==
    /\ reply.msg = "stats"
    /\ reply.to = "u1"
    /\ reply.detail = "day"
    /\ Get(reply.value).income = 0
    /\ Get(reply.value).expense = 0
    /\ Get(reply.value).exp_top = <<>>
    /\ now = DAY
    /\ RowsSince("u1", 0) # {}
    /\ RowsSince("u1", DAY) = {}
    /\ RowsSince("u2", DAY) # {}

\* a user was shown the totals of the week, made of two days' transactions
C28_WitnessWeek ==
    /\ reply.msg = "stats"
    /\ reply.to = "u1"
    /\ reply.detail = "week"
    /\ Get(reply.value).expense = 250
    /\ Get(reply.value).income = 100
    /\ now = DAY
    /\ RowsSince("u1", DAY) # RowsSince("u1", 0)

-----------------------------------------------------------------------------
(* The store calls of concurrent update tasks (SpecStore): cmd_delete_last *)
(* is taken statement by statement, a task being suspended at each await   *)
(* of cursor.execute; a task is [id, user, pc, user_id, tx_id]             *)

\* the dispatcher starts a task for /delete_last of user u
cmd_delete_last_begin(u) ==
    /\ On("cmd_delete_last", u, CommandEvent("delete_last", None))
    /\ Cardinality(handle_update_tasks) < MaxTasks
    /\ handle_update_tasks' = handle_update_tasks \cup
            {[id |-> CHOOSE i \in 1..MaxTasks :
                        /\ \A o \in handle_update_tasks : o.id # i
                        /\ \A j \in 1..(i - 1) :
                              \E o \in handle_update_tasks : o.id = j,
              user |-> u, pc |-> "ensure_user_select", user_id |-> 0, tx_id |-> 0]}
    /\ UNCHANGED <<fsm_state, fsm_data, users, transactions, users_auto, tx_auto, now,
                   reply, observed, probe>>

\* ensure_user: SELECT id FROM users WHERE telegram_id=%s, and the return
\* when there is a row
ensure_user_select(task) ==
    /\ task.pc = "ensure_user_select"
    /\ handle_update_tasks' = (handle_update_tasks \ {task}) \cup
            {IF \E r \in users : r.telegram_id = task.user
             THEN [task EXCEPT !.pc = "select", !.user_id = UserRow(task.user).id]
             ELSE [task EXCEPT !.pc = "ensure_user_insert"]}
    /\ UNCHANGED <<fsm_state, fsm_data, users, transactions, users_auto, tx_auto, now,
                   reply, observed, probe>>

\* ensure_user: INSERT INTO users; telegram_id is UNIQUE, and a duplicate
\* key ends the statement with IntegrityError, which leaves the handler
ensure_user_insert(task) ==
    LET eu == ensure_user(task.user)
    IN  /\ task.pc = "ensure_user_insert"
        /\ IF \E r \in users : r.telegram_id = task.user
           THEN /\ handle_update_tasks' = handle_update_tasks \ {task}
                /\ reply' = Raised(task.user, "IntegrityError")
                /\ UNCHANGED <<users, users_auto>>
           ELSE /\ users' = eu.users
                /\ users_auto' = eu.users_auto
                /\ handle_update_tasks' = (handle_update_tasks \ {task}) \cup
                        {[task EXCEPT !.pc = "select", !.user_id = eu.id]}
                /\ UNCHANGED reply
        /\ UNCHANGED <<fsm_state, fsm_data, transactions, tx_auto, now, observed,
                       probe>>

\* delete_last_transaction: the SELECT of the last id, and the return of
\* False when there is no row
delete_last_select(task) ==
    /\ task.pc = "select"
    /\ IF UserTx(task.user_id) = {}
       THEN /\ handle_update_tasks' = handle_update_tasks \ {task}
            /\ reply' = Msg(task.user, "nothing to delete")
       ELSE /\ handle_update_tasks' = (handle_update_tasks \ {task}) \cup
                    {[task EXCEPT !.pc = "delete",
                                  !.tx_id = last_transaction(task.user_id).id]}
            /\ UNCHANGED reply
    /\ UNCHANGED <<fsm_state, fsm_data, users, transactions, users_auto, tx_auto, now,
                   observed, probe>>

\* delete_last_transaction: DELETE FROM transactions WHERE id=%s and the
\* return of True, and the answer of the handler
delete_last_delete(task) ==
    /\ task.pc = "delete"
    /\ transactions' = {r \in transactions : r.id # task.tx_id}
    /\ handle_update_tasks' = handle_update_tasks \ {task}
    /\ reply' = Msg(task.user, "deleted")
    /\ UNCHANGED <<fsm_state, fsm_data, users, users_auto, tx_auto, now, observed,
                   probe>>

InitStore == Start(TRUE, NoProbe)

NextStore ==
    \/ \E u \in Users :
        \/ cmd_delete_last_begin(u)
        \/ \E a \in LedgerArgs :
            cmd_add_expense(u, a, "none") /\ Inserts(MaxLedgerInserts)
    \/ \E task \in handle_update_tasks :
        \/ ensure_user_select(task)
        \/ ensure_user_insert(task)
        \/ delete_last_select(task)
        \/ delete_last_delete(task)

SpecStore == InitStore /\ [][NextStore]_vars

\* C29: the ledger writes of one user are serialized: in every interleaving
\* of concurrent delete_last calls and appends, a delete_last call that
\* reports success has removed a transaction that no other call removed
\* (as many transactions leave the ledger as calls report success)
C29_DeleteLastRemovesOne ==
    [][\A task \in handle_update_tasks :
          delete_last_delete(task) =>
              Cardinality(transactions') = Cardinality(transactions) - 1]_vars

\* C30: ensure_user is idempotent per external id: in every interleaving of
\* ensure_user calls the table holds at most one user per external id, no
\* user is removed, and every call returns the id of that user and does not
\* fail
C30_EnsureUserIdempotent ==
    /\ [](\A a, b \in users : a.telegram_id = b.telegram_id => a = b)
    /\ [][users \subseteq users']_vars
    /\ [][\A task \in handle_update_tasks :
             ensure_user_select(task) \/ ensure_user_insert(task) =>
                 \E after \in handle_update_tasks' :
                     /\ after.id = task.id
                     /\ after.pc \in {"ensure_user_insert", "select"}
                     /\ after.pc = "select" =>
                           \E r \in users' :
                               r.telegram_id = task.user /\ r.id = after.user_id]_vars

-----------------------------------------------------------------------------
(* One candidate, one transaction (SpecTasks) *)

\* the candidate that task is about to persist is still the pending
\* candidate of its user, and no other task of that user has persisted it
CandidatePending(task) ==
    /\ fsm_state[task.user] = ST_VOICE
    /\ fsm_data[task.user].voice_tx = Some(task.voice_tx)
    /\ \A other \in handle_update_tasks :
          other.user = task.user /\ other.id # task.id => other.pc # "clear"

\* C31: in every interleaving of one user's messages a candidate stored by
\* one audio event leads to at most one transaction: a "yes" handled while
\* an earlier "yes" still waits on the store does not append the candidate
\* again, and a candidate discarded by "no" or the cancel keyword is not
\* appended
C31_OneTransactionPerCandidate ==
    [][\A task \in handle_update_tasks :
          voice_confirm_add_transaction(task) => CandidatePending(task)]_vars

-----------------------------------------------------------------------------
(* The session and its accumulator (Spec) *)

\* C32: in every reachable state a session that is in Idle has an empty
\* accumulator: no amount, category or voice candidate of an earlier flow is
\* left for the next one
C32_IdleHasEmptyAccumulator ==
    \A u \in Users : fsm_state[u] = ST_NONE => fsm_data[u] = EmptyData

\* a dialog with a typed category has ended in the ledger and the session
\* is back in Idle
C32_Witness ==
    /\ fsm_state["u1"] = ST_NONE
    /\ fsm_data["u1"] = EmptyData
    /\ \E r \in transactions : r.origin = "typed" /\ r.category = T_WORD

\* an amount of the accumulator that is a number above zero
HoldsAmount(data) ==
    ~IsNone(data.amount) /\ Get(data.amount).k = "num" /\ Get(data.amount).m > 0

\* a candidate as the validation leaves it: a kind, an amount above zero and
\* a category that, stripped, is of the catalog of the kind
ValidatedCandidate(data) ==
    /\ ~IsNone(data.voice_tx)
    /\ Get(data.voice_tx).type \in Kinds
    /\ Get(data.voice_tx).amount.k = "num"
    /\ Get(data.voice_tx).amount.m > 0
    /\ InList(strip(Get(data.voice_tx).category),
              Categories(Get(data.voice_tx).type))

\* C33: in every reachable state the accumulator holds the fields its state
\* requires: an amount above zero in AwaitingCategory and
\* AwaitingCustomCategory, an amount above zero and a non-empty category in
\* AwaitingDescriptionChoice and AwaitingDescription, a validated candidate
\* in AwaitingVoiceConfirmation (so no finalization runs on a missing amount
\* or category)
C33_AccumulatorFitsState ==
    \A u \in Users :
        /\ \A k \in Kinds :
            /\ fsm_state[u] \in {StateOf(k, "category"),
                                 StateOf(k, "maybe_custom_category")} =>
                    HoldsAmount(fsm_data[u])
            /\ fsm_state[u] \in {StateOf(k, "need_description"),
                                 StateOf(k, "description")} =>
                    /\ HoldsAmount(fsm_data[u])
                    /\ ~IsNone(fsm_data[u].category)
                    /\ Get(fsm_data[u].category) # <<>>
        /\ fsm_state[u] = ST_VOICE => ValidatedCandidate(fsm_data[u])

-----------------------------------------------------------------------------
(* Two users side by side (SpecIsolation): each sends commands, buttons,   *)
(* dialog inputs and voice messages                                        *)

\* the events of user u
EventOf(u) ==
    \/ btn_expense(u)
    \/ expense_enter_amount(u, T_AMOUNT)
    \/ \E t \in {<<"Eda">>, CANCEL} : expense_choose_category(u, t)
    \/ expense_need_description(u, T_NET, "none") /\ Inserts(MaxInserts)
    \/ handle_voice(u, AddCandidate)
    \/ \E t \in {T_DA, T_NET} :
        voice_confirm(u, TextEvent(t), "none") /\ Inserts(MaxInserts)
    \/ cmd_add_income(u, Some(<<"1", " ", "Eda">>), "none") /\ Inserts(MaxInserts)
    \/ cmd_delete_last(u, "none")
    \/ cmd_balance(u, "none")
    \/ \E t \in PeriodTexts : btn_stats_period(u, t, "none")

InitIsolation == Start(TRUE, NoProbe)

NextIsolation == \E u \in Users : EventOf(u)

SpecIsolation == InitIsolation /\ [][NextIsolation]_vars

\* the transactions owned by the user with external id u
OwnedBy(u) ==
    {r \in transactions : \E w \in users : w.telegram_id = u /\ w.id = r.user_id}

\* the session of b, the transactions b owns and the balance and stats of b
\* are after the step what they were before it
Untouched(b) ==
    /\ SessionKept(b)
    /\ OwnedBy(b)' = OwnedBy(b)
    /\ \A w \in users :
          w.telegram_id = b =>
              /\ w \in users'
              /\ get_balance(w.id)' = get_balance(w.id)
              /\ \A p \in {"day", "week", "month", "year"} :
                    get_stats(w.id, p)' = get_stats(w.id, p)

\* C34: users are isolated from one another: an event of user A (a command,
\* a button, a dialog input, a voice message, delete_last) changes neither
\* the session state or accumulator of another user B, nor the transactions
\* B owns, nor the result of balance(B) or stats(B, period)
C34_UsersIsolated ==
    [][\A a \in Users : EventOf(a) => \A b \in Users \ {a} : Untouched(b)]_vars

\* user u1 asked to delete and had nothing to delete, while user u2, who
\* owns a transaction, is in the middle of a dialog
C34_Witness ==
    /\ reply.to = "u1"
    /\ reply.msg = "nothing to delete"
    /\ fsm_state["u2"] = StateOf("expense", "need_description")
    /\ OwnedBy("u2") # {}

-----------------------------------------------------------------------------
(* The handlers that take no FSM context (SpecFrame): the session is walked *)
(* through the expense dialog and the voice confirmation, and the commands *)
(* and menu buttons arrive in each state, the store failing or not         *)

\* start, help, balance, stats, delete_last, add_expense or add_income
\* handles an event of user u
SessionFreeHandler(u) ==
    \/ \E fault \in {"none", "ensure_user"} : cmd_start(u, fault)
    \/ cmd_help(u)
    \/ btn_help(u)
    \/ \E fault \in Faults :
        \/ cmd_balance(u, fault)
        \/ btn_balance(u, fault)
        \/ \E a \in StatsArgs : cmd_stats(u, a, fault)
        \/ \E t \in PeriodTexts : btn_stats_period(u, t, fault)
        \/ cmd_delete_last(u, fault)
        \/ btn_delete_last(u, fault)
        \/ \E a \in CmdArgs : cmd_add_expense(u, a, fault)
        \/ \E a \in CmdArgs : cmd_add_income(u, a, fault)

InitFrame == Start(TRUE, NoProbe)

NextFrame ==
    \E u \in {"u1"} :
        \/ btn_expense(u)
        \/ expense_enter_amount(u, T_AMOUNT)
        \/ \E t \in {<<"Eda">>, CUSTOM} : expense_choose_category(u, t)
        \/ expense_custom_category(u, T_WORD)
        \/ \E t \in {T_DA, T_NET} :
            expense_need_description(u, t, "none") /\ Inserts(MaxInserts)
        \/ expense_description(u, T_WORD, "none") /\ Inserts(MaxInserts)
        \/ handle_voice(u, AddCandidate)
        \/ \E t \in {T_DA, T_NET} :
            voice_confirm(u, TextEvent(t), "none") /\ Inserts(MaxInserts)
        \/ \E fault \in {"none", "ensure_user"} : cmd_start(u, fault)
        \/ cmd_help(u)
        \/ btn_help(u)
        \/ \E fault \in Faults :
            \/ cmd_balance(u, fault)
            \/ btn_balance(u, fault)
            \/ \E a \in StatsArgs : cmd_stats(u, a, fault)
            \/ \E t \in PeriodTexts : btn_stats_period(u, t, fault)
            \/ cmd_delete_last(u, fault)
            \/ btn_delete_last(u, fault)
            \/ \E a \in CmdArgs : cmd_add_expense(u, a, fault) /\ Inserts(MaxInserts)
            \/ \E a \in CmdArgs : cmd_add_income(u, a, fault) /\ Inserts(MaxInserts)

SpecFrame == InitFrame /\ [][NextFrame]_vars

\* C35: the handlers of start, help, balance, stats (command and period
\* buttons), delete_last, add_expense and add_income never modify the
\* session: in whatever session state one of them handles an event, the
\* state and the accumulator of the user are after it what they were before
C35_SessionFreeHandlers ==
    [][\A u \in Users : SessionFreeHandler(u) => SessionKept(u)]_vars

\* an add command was handled between two steps of a dialog, which still
\* holds its amount and category
C35_Witness ==
    /\ reply.msg = "added"
    /\ reply.detail = "income"
    /\ fsm_state["u1"] = StateOf("expense", "need_description")
    /\ fsm_data["u1"].amount = Some(Num(2500))
    /\ fsm_data["u1"].category = Some(T_WORD)
    /\ \E r \in transactions : r.type = "income"

====
